---------------------------- MODULE Spec2Model ----------------------------
(***************************************************************************)
(* The image handler of image-customization-controller: the registry that  *)
(* maps a build key to a virtual image file and a public URL.              *)
(*                                                                         *)
(* The repository holds two versions of pkg/imagehandler/imagehandler.go:  *)
(*   - the UUID-naming handler (src/unnamed/part_002): base files indexed  *)
(*     by architecture, a random UUID as the name of a non-static image;   *)
(*   - the content-addressed handler (src/unnamed/part_003): one ISO and   *)
(*     one initramfs base, <base checksum>/<payload sha256> as the name.   *)
(* Both are modelled over the same maps, keys and images; the variable     *)
(* handler says which of the two was constructed.  The definitions of the  *)
(* content-addressed handler carry the suffix CA.                          *)
(*                                                                         *)
(* The tests of src/unnamed/part_001 also exercise a handler with a host   *)
(* architecture fallback and HasImagesForArchitecture, whose source is not *)
(* part of the sources at hand; its base resolution is modelled from the   *)
(* specification (suffix FB, handler = "fallback").                        *)
(***************************************************************************)
EXTENDS Integers, Sequences, FiniteSets, TLC

VARIABLES
    handler,    \* "uuid" (part_002) or "content" (part_003): which handler was built
    keys,       \* imageFileSystem.keys:   virtual name -> build key
    images,     \* imageFileSystem.images: build key -> imageFile
    size,       \* baseFileData.size of the handler's base files (0: not memoized)
    checkSum,   \* baseFileData.checkSum of the same ("": not memoized)
    disk,       \* the same files on storage: filename -> [exists, readable, size, sum]
    minted,     \* how many values uuid.NewRandom has returned so far
    last,       \* the last call made and what it returned
    issued,     \* history: key -> URL of its last static=false ServeImage since RemoveImage
    revoked,    \* history: the last key removed while it had a URL issued, that URL,
                \* and the URL of its next static=false ServeImage
    dir,        \* the names os.ReadDir(imageSharedDir) returned to NewImageHandler
    mu,         \* imageFileSystem.mu: the goroutine that holds it, or NoProc
    pc,         \* goroutine -> the call it is in and the statement it is at
    readers,    \* how many derivation readers InsertIgnition has opened so far
    built,      \* what the last BuildImage returned
    known,      \* history: (method, base file) -> what its first successful call returned
    cluster,    \* the API objects the reconciler works on, and its work queue
    proc        \* the process: where main is, the HTTP listener, the exit status

vars == <<handler, keys, images, size, checkSum, disk, minted, last, issued, revoked,
          dir, mu, pc, readers, built, known, cluster, proc>>

\* What the calls of one client, made one at a time, leave alone.
others == <<dir, mu, pc, readers, built, known, cluster, proc>>

-----------------------------------------------------------------------------
(* Bounds of the model. *)

\* uuid.NewRandom is called at most MaxUUID times in a behaviour.
MaxUUID == 2

-----------------------------------------------------------------------------
(* Inputs. *)

\* Build keys: a plain one (as the tests use) and one whose characters need
\* escaping in a URL path.
Keys == {"test-key-1", "test key 2"}

\* A key that is not a valid URL path (a "%" not followed by two hex digits).
\* It is passed with static=true only, where it is the name; with static=false
\* it is one more key like those of Keys.
BadKey == "bad%zz"

\* The calls made: (key, static).
Calls == (Keys \X BOOLEAN) \cup {<<BadKey, TRUE>>}

\* Ignition payloads ([]byte), as in the tests of the content-addressed handler.
Payloads == {<<0, 1>>, <<1, 2>>}

\* Architectures a caller asks for: none (as the tests do), and one that has no
\* base file.
Archs == {"", "aarch64"}

\* The values uuid.NewRandom returns, in the order it returns them.  A random
\* 122-bit value is taken never to repeat: the n-th call returns UUIDs[n].
UUIDs == << "8f2c1c3e-0a57-4d1b-9f0e-5a7d3c2b1a01",
            "1b9d6bcd-bbfd-4b2d-9b5d-ab8dfbbd4bed",
            "6ec0bd7f-11c0-43da-975e-2a8ad9ebae0b",
            "3d6f0a55-2e6c-4c50-8b1f-7c1d0e9a4f12",
            "c56a4180-65aa-42ec-a945-5fd21dec0538" >>

nil == [nil |-> TRUE]

NoURL == ""

-----------------------------------------------------------------------------
(* Base files. *)

imageSharedDir == "/shared/html/images"

\* A shared directory that holds the two host images and nothing else.
HostOnly == {"ironic-python-agent.iso", "ironic-python-agent.initramfs"}

\* A shared directory that also holds an ISO for aarch64 only, an initramfs
\* for ppc64le only, and a file that is no image.
Mixed == HostOnly \cup {"ironic-python-agent-aarch64.iso",
                        "ironic-python-agent-ppc64le.initramfs", "README.md"}

\* A shared directory with the host ISO and no host initramfs.
IsoOnly == {"ironic-python-agent.iso"}

Listings == {HostOnly, Mixed, IsoOnly}

\* parseIronicImage on the file names of the directories modelled: the two
\* host names, the names pythonImagePattern matches, and a name it rejects.
parseIronicImage(filename) ==
    CASE filename = "ironic-python-agent.iso" ->
            [ok |-> TRUE, arch |-> "host", iso |-> TRUE, initramfs |-> FALSE]
      [] filename = "ironic-python-agent.initramfs" ->
            [ok |-> TRUE, arch |-> "host", iso |-> FALSE, initramfs |-> TRUE]
      [] filename = "ironic-python-agent-aarch64.iso" ->
            [ok |-> TRUE, arch |-> "aarch64", iso |-> TRUE, initramfs |-> FALSE]
      [] filename = "ironic-python-agent-ppc64le.initramfs" ->
            [ok |-> TRUE, arch |-> "ppc64le", iso |-> FALSE, initramfs |-> TRUE]
      [] OTHER ->
            [ok |-> FALSE, arch |-> "", iso |-> FALSE, initramfs |-> FALSE]

\* path.Join(imageSharedDir, filename).
Join(filename) == imageSharedDir \o "/" \o filename

\* An index that is left empty as soon as one directory entry fails to parse.
isoFiles_StopsAtUnparsed ==
    LET found == {n \in dir : parseIronicImage(n).ok /\ parseIronicImage(n).iso} IN
    IF \E n \in dir : ~parseIronicImage(n).ok
    THEN <<>>
    ELSE [a \in {parseIronicImage(n).arch : n \in found} |->
             Join(CHOOSE n \in found : parseIronicImage(n).arch = a)]

\* The index NewImageHandler (UUID-naming) builds from the shared directory:
\* architecture -> base ISO.  The directories modelled hold at most one file
\* of an architecture and format.
isoFiles ==
    LET found == {n \in dir : parseIronicImage(n).ok /\ parseIronicImage(n).iso} IN
    [a \in {parseIronicImage(n).arch : n \in found} |->
        Join(CHOOSE n \in found : parseIronicImage(n).arch = a)]

\* The same for the initramfs.
initramfsFiles ==
    LET found == {n \in dir : parseIronicImage(n).ok /\ parseIronicImage(n).initramfs} IN
    [a \in {parseIronicImage(n).arch : n \in found} |->
        Join(CHOOSE n \in found : parseIronicImage(n).arch = a)]

\* The two base files NewImageHandler (content-addressed) is given.
isoFile == "dummyfile.iso"

initramfsFile == "dummyfile.initramfs"

IsIso(f) == f \in {isoFiles[a] : a \in DOMAIN isoFiles} \cup {isoFile}

\* No goroutine: the mutex is free.
NoProc == "none"

\* The goroutines that call the handler concurrently.
Procs == {"g1", "g2"}

\* A goroutine that is in no call.
Idle == [op |-> "idle", at |-> "idle"]

NoBuild == [op |-> "none", url |-> "", err |-> ""]

\* No API object is looked at.
NoCluster == [img |-> "none"]

\* The process once main has built the image handler, started the HTTP
\* listener and started the controller manager; -1: it has not exited.
Started == [main |-> "manager", http |-> "listening", exit |-> -1]

\* A base file on storage: what os.Stat and os.Open find, its size and the
\* SHA-256 of its content.
OnDisk(f) == IF IsIso(f)
             THEN [exists |-> TRUE, readable |-> TRUE, size |-> 123456,
                   sum |-> "5f0e7a0d4a62b6d4f2a0b1c3d4e5f60718293a4b5c6d7e8f9fa0b1c2d3e4f501"]
             ELSE [exists |-> TRUE, readable |-> TRUE, size |-> 12345,
                   sum |-> "0c1d2e3f405162738495a6b7c8d9eafb0c1d2e3f405162738495a6b7c8d9eafb"]

\* The same file when os.Stat finds it and os.Open (or reading it) fails.
Unreadable(f) == [OnDisk(f) EXCEPT !.readable = FALSE]

Missing == [exists |-> FALSE, readable |-> FALSE, size |-> 0, sum |-> ""]

\* What a base file of a handler can be on storage.  The UUID-naming handler
\* never opens a base file in ServeImage: only os.Stat matters to it.
OnStorage(h, f) == IF h # "content"
                   THEN {OnDisk(f), Missing}
                   ELSE {OnDisk(f), Unreadable(f), Missing}

\* A Size that answers 0 when os.Stat fails.
Size_DefaultsToZero(f) ==
    IF size[f] = 0
    THEN IF disk[f].exists
         THEN [ok |-> TRUE, val |-> disk[f].size]
         ELSE [ok |-> TRUE, val |-> 0]
    ELSE [ok |-> TRUE, val |-> size[f]]

\* baseFileData.Size: the memoized size, or the file's size from os.Stat.
Size(f) == IF size[f] = 0
           THEN IF disk[f].exists
                THEN [ok |-> TRUE, val |-> disk[f].size]
                ELSE [ok |-> FALSE, val |-> 0]
           ELSE [ok |-> TRUE, val |-> size[f]]

\* bf.size after a Size() that remembers that os.Stat failed.
SizeMemo_CachesFailure(f) ==
    IF size[f] = 0
    THEN [size EXCEPT ![f] = IF disk[f].exists THEN disk[f].size ELSE -1]
    ELSE size

\* bf.size after Size() returned.
SizeMemo(f) == IF size[f] = 0 /\ disk[f].exists
               THEN [size EXCEPT ![f] = disk[f].size]
               ELSE size

\* baseFileData.CheckSum: the memoized checksum, or the hash of the file.
CheckSum(f) == IF checkSum[f] = ""
               THEN IF disk[f].exists /\ disk[f].readable
                    THEN [ok |-> TRUE, val |-> disk[f].sum]
                    ELSE [ok |-> FALSE, val |-> ""]
               ELSE [ok |-> TRUE, val |-> checkSum[f]]

\* bf.checkSum after CheckSum() returned.
CheckSumMemo(f) == IF checkSum[f] = "" /\ disk[f].exists /\ disk[f].readable
                   THEN [checkSum EXCEPT ![f] = disk[f].sum]
                   ELSE checkSum

-----------------------------------------------------------------------------
(* URLs: net/url as the handlers use it. *)

\* f.baseURL, as main's default and the tests give it: scheme and host, no path.
baseURL == "http://base.test:1234"

\* url.Parse fails on a path with a "%" that does not start an escape.
InvalidEscape(s) == s = "/bad%zz"

\* URL.EscapedPath: the path as URL.String writes it.
EscapedPath(p) == CASE p = "/test key 2" -> "/test%20key%202"
                    [] OTHER -> p

\* url.Parse(raw) for a raw that starts with "/": the error, or the path.
urlParse(raw) == IF InvalidEscape(raw)
                 THEN [ok |-> FALSE, Path |-> ""]
                 ELSE [ok |-> TRUE, Path |-> raw]

\* f.baseURL.ResolveReference(p).String() for an absolute path p.
ResolveReference(p) == baseURL \o EscapedPath(p.Path)

\* hex.EncodeToString(sha256.Sum256(ignitionContent)).
Sha256Hex(b) == CASE b = <<0, 1>> -> "b413f47d13ee2fe6c845b2ee141af81de858df4ec549a58b7970bb96645bc8d2"
                  [] b = <<1, 1>> -> "9dcf97a184f32623d11a73124ceb99a5709b083721e878a16d78f596718ba7b2"
                  [] b = <<1, 2>> -> "a12871fee210fb8619291eaea194581cbd2531e4b23759d225f6806923f63222"
                  [] b = <<>>     -> "e3b0c44298fc1c149afbf4c8996fb92427ae41e4649b934ca495991b7852b855"


-----------------------------------------------------------------------------
(* The state after construction. *)

HandlerFiles(h) == IF h # "content"
                   THEN {isoFiles[a] : a \in DOMAIN isoFiles}
                            \cup {initramfsFiles[a] : a \in DOMAIN initramfsFiles}
                   ELSE {isoFile, initramfsFile}

NoCall == [op |-> "none", key |-> "", arch |-> "", payload |-> <<>>,
           initramfs |-> FALSE, static |-> FALSE,
           url |-> NoURL, err |-> "", cause |-> "", name |-> ""]

NoRevoked == [key |-> "", url |-> NoURL, again |-> NoURL]

\* NewImageHandler: empty maps, nothing memoized.  A base file may be missing
\* from storage (the content-addressed handler never looks before the first
\* ServeImage; a discovered file may be gone by then).
NewImageHandler(h, listing) ==
    /\ handler = h
    /\ dir = listing
    /\ keys = <<>>
    /\ images = <<>>
    /\ size = [f \in HandlerFiles(handler) |-> 0]
    /\ checkSum = [f \in HandlerFiles(handler) |-> ""]
    /\ disk \in [HandlerFiles(handler) -> UNION {OnStorage(handler, f) :
                                                    f \in HandlerFiles(handler)}]
    /\ \A f \in HandlerFiles(handler) : disk[f] \in OnStorage(handler, f)
    /\ minted = 0
    /\ last = NoCall
    /\ issued = [k \in Keys |-> NoURL]
    /\ revoked = NoRevoked
    /\ mu = NoProc
    /\ pc = [p \in Procs |-> Idle]
    /\ readers = 0
    /\ built = NoBuild
    /\ known = <<>>
    /\ cluster = NoCluster
    /\ proc = Started

Init == \E h \in {"uuid", "content"} : NewImageHandler(h, HostOnly)

-----------------------------------------------------------------------------
(* The UUID-naming handler (src/unnamed/part_002). *)

\* A getBaseImage that falls back to the "host" entry for any architecture
\* that has no file of the format.
getBaseImage_HostForAll(arch, initramfs) ==
    LET index == IF initramfs THEN initramfsFiles ELSE isoFiles
        a == IF arch = "" \/ arch \notin DOMAIN index THEN "host" ELSE arch
    IN
    IF a \in DOMAIN index
    THEN [found |-> TRUE, file |-> index[a]]
    ELSE [found |-> FALSE, file |-> ""]

\* getBaseImage: the base file of (arch, format), "" standing for "host".
getBaseImage(arch, initramfs) ==
    LET a == IF arch = "" THEN "host" ELSE arch IN
    IF initramfs
    THEN IF a \in DOMAIN initramfsFiles
         THEN [found |-> TRUE, file |-> initramfsFiles[a]]
         ELSE [found |-> FALSE, file |-> ""]
    ELSE IF a \in DOMAIN isoFiles
         THEN [found |-> TRUE, file |-> isoFiles[a]]
         ELSE [found |-> FALSE, file |-> ""]

\* A getNameForKey that draws a new UUID on every call.
getNameForKey_AlwaysMints(key, randOK) ==
    IF randOK
    THEN [ok |-> TRUE, name |-> UUIDs[minted + 1], drawn |-> 1]
    ELSE [ok |-> FALSE, name |-> "", drawn |-> 0]

\* A getNameForKey that derives the name of a new image from its key.
getNameForKey_FromKey(key, randOK) ==
    IF key \in DOMAIN images
    THEN [ok |-> TRUE, name |-> images[key].name, drawn |-> 0]
    ELSE [ok |-> TRUE, name |-> IF key = "test-key-1" THEN UUIDs[1] ELSE UUIDs[2],
          drawn |-> 0]

\* getNameForKey: the name of the registered image, or a new random UUID;
\* randOK is whether uuid.NewRandom could read its random source.
getNameForKey(key, randOK) ==
    IF key \in DOMAIN images
    THEN [ok |-> TRUE, name |-> images[key].name, drawn |-> 0]
    ELSE IF randOK
         THEN [ok |-> TRUE, name |-> UUIDs[minted + 1], drawn |-> 1]
         ELSE [ok |-> FALSE, name |-> "", drawn |-> 0]

\* A choice of name that looks the key up first, whatever static says.
nameOf_RegisteredFirst(key, static, randOK) ==
    IF static /\ key \notin DOMAIN images
    THEN [ok |-> TRUE, name |-> key, drawn |-> 0]
    ELSE getNameForKey(key, randOK)

\* The name ServeImage serves a key under: the key itself when static.
nameOf(key, static, randOK) ==
    IF static
    THEN [ok |-> TRUE, name |-> key, drawn |-> 0]
    ELSE getNameForKey(key, randOK)

\* A registration that replaces the image of a key already registered.
Register_Overwrites(key, img) ==
    /\ keys' = (img.name :> key) @@ keys
    /\ images' = (key :> img) @@ images

\* The registration step of ServeImage: both maps get the new image unless the
\* key is already registered.
Register(key, img) ==
    IF key \in DOMAIN images
    THEN /\ keys' = keys
         /\ images' = images
    ELSE /\ keys' = (img.name :> key) @@ keys
         /\ images' = (key :> img) @@ images

\* An imageFile whose size field is never set.
imageFile_WithoutSize(name, arch, sz, ignitionContent, initramfs) ==
    [name |-> name, arch |-> arch, size |-> 0,
     ignitionContent |-> ignitionContent, initramfs |-> initramfs]

\* The imageFile ServeImage registers.
imageFile(name, arch, sz, ignitionContent, initramfs) ==
    [name |-> name, arch |-> arch, size |-> sz,
     ignitionContent |-> ignitionContent, initramfs |-> initramfs]

Returned(key, arch, ignitionContent, initramfs, static, url, err, cause, name) ==
    [op |-> "serve", key |-> key, arch |-> arch, payload |-> ignitionContent,
     initramfs |-> initramfs, static |-> static,
     url |-> url, err |-> err, cause |-> cause, name |-> name]

\* The history of the first ServeImage of a key after its removal: its URL is
\* kept when static is false; a static call ends the sequence.
Reissued(key, static, url) ==
    IF revoked.key = key /\ revoked.again = NoURL
    THEN IF static THEN NoRevoked ELSE [revoked EXCEPT !.again = url]
    ELSE revoked

\* ServeImage once getBaseImage has returned base.
ServeFrom(base, key, arch, ignitionContent, initramfs, static, randOK) ==
    /\ randOK \/ (~static /\ key \notin DOMAIN images)
    /\ LET ret(url, err, cause, name) ==
               Returned(key, arch, ignitionContent, initramfs, static,
                        url, err, cause, name)
       IN
       IF ~base.found
       THEN /\ last' = ret(NoURL, "InvalidBaseImageError", "not found", "")
            /\ UNCHANGED <<keys, images, size, minted, issued, revoked>>
       ELSE
       LET sz == Size(base.file) IN
       IF ~sz.ok
       THEN /\ last' = ret(NoURL, "InvalidBaseImageError", "stat", "")
            /\ UNCHANGED <<keys, images, size, minted, issued, revoked>>
       ELSE
       LET got == nameOf(key, static, randOK) IN
       /\ minted + got.drawn <= MaxUUID
       /\ size' = SizeMemo(base.file)
       /\ minted' = minted + got.drawn
       /\ IF ~got.ok
          THEN /\ last' = ret(NoURL, "uuid", "", "")
               /\ UNCHANGED <<keys, images, issued, revoked>>
          ELSE
          LET p == urlParse("/" \o got.name) IN
          IF ~p.ok
          THEN /\ last' = ret(NoURL, "url", "", "")
               /\ UNCHANGED <<keys, images, issued, revoked>>
          ELSE /\ Register(key, imageFile(got.name, arch, sz.val,
                                          ignitionContent, initramfs))
               /\ last' = ret(ResolveReference(p), "", "", got.name)
               /\ issued' = IF static THEN issued
                            ELSE [issued EXCEPT ![key] = ResolveReference(p)]
               /\ revoked' = Reissued(key, static, ResolveReference(p))

\* A ServeImage that looks the empty architecture up as it is.
ServeImage_EmptyArchAsIs(key, arch, ignitionContent, initramfs, static, randOK) ==
    /\ handler = "uuid"
    /\ ServeFrom(IF arch = ""
                 THEN [found |-> FALSE, file |-> ""]
                 ELSE getBaseImage(arch, initramfs),
                 key, arch, ignitionContent, initramfs, static, randOK)
    /\ UNCHANGED <<handler, checkSum, disk>>
    /\ UNCHANGED others

ServeImage(key, arch, ignitionContent, initramfs, static, randOK) ==
    /\ handler = "uuid"
    /\ ServeFrom(getBaseImage(arch, initramfs),
                 key, arch, ignitionContent, initramfs, static, randOK)
    /\ UNCHANGED <<handler, checkSum, disk>>
    /\ UNCHANGED others

\* imageFileByName: the image registered under a name, or nil.
imageFileByName(name) ==
    IF name \in DOMAIN keys
    THEN IF keys[name] \in DOMAIN images THEN images[keys[name]] ELSE nil
    ELSE nil

\* A RemoveImage that forgets delete(f.keys, img.name).
Unregister_KeepsName(key) ==
    IF key \in DOMAIN images
    THEN /\ keys' = keys
         /\ images' = [k \in DOMAIN images \ {key} |-> images[k]]
    ELSE /\ keys' = keys
         /\ images' = images

\* A RemoveImage that deletes keys[key] instead of keys[img.name].
Unregister_ByKey(key) ==
    IF key \in DOMAIN images
    THEN /\ keys' = [n \in DOMAIN keys \ {key} |-> keys[n]]
         /\ images' = [k \in DOMAIN images \ {key} |-> images[k]]
    ELSE /\ keys' = keys
         /\ images' = images

\* The two deletes of RemoveImage.
Unregister(key) ==
    IF key \in DOMAIN images
    THEN /\ keys' = [n \in DOMAIN keys \ {images[key].name} |-> keys[n]]
         /\ images' = [k \in DOMAIN images \ {key} |-> images[k]]
    ELSE /\ keys' = keys
         /\ images' = images

Removed(key) ==
    [op |-> "remove", key |-> key, arch |-> "", payload |-> <<>>,
     initramfs |-> FALSE, static |-> FALSE,
     url |-> NoURL, err |-> "", cause |-> "", name |-> ""]

RemoveImage(key) ==
    /\ handler = "uuid"
    /\ Unregister(key)
    /\ last' = Removed(key)
    /\ issued' = IF key \in Keys THEN [issued EXCEPT ![key] = NoURL] ELSE issued
    /\ revoked' = IF key \in Keys /\ issued[key] # NoURL
                  THEN [key |-> key, url |-> issued[key], again |-> NoURL]
                  ELSE revoked
    /\ UNCHANGED <<handler, size, checkSum, disk, minted>>
    /\ UNCHANGED others

-----------------------------------------------------------------------------
(* The content-addressed handler (src/unnamed/part_003). *)

getBaseImageCA(initramfs) == IF initramfs THEN initramfsFile ELSE isoFile

\* A registration that replaces the image of a key that is registered.
RegisterCA_Replaces(key, img) ==
    /\ keys' = (img.name :> key) @@ keys
    /\ images' = (key :> img) @@ images

\* if _, exists := f.images[key]; !exists { f.keys[name] = key; f.images[key] = ... }
RegisterCA(key, img) ==
    IF key \in DOMAIN images
    THEN /\ keys' = keys
         /\ images' = images
    ELSE /\ keys' = (img.name :> key) @@ keys
         /\ images' = (key :> img) @@ images

\* A name that leaves the payload out of the hash.
nameCA_WithoutPayload(key, basePath, ignitionContent, static) ==
    IF static
    THEN "/" \o key
    ELSE "/" \o basePath \o "/" \o Sha256Hex(<<>>)

\* The name ServeImage serves a key under: /<key> when static, otherwise
\* /<checksum of the base>/<SHA-256 of the payload>.
nameCA(key, basePath, ignitionContent, static) ==
    IF static
    THEN "/" \o key
    ELSE "/" \o basePath \o "/" \o Sha256Hex(ignitionContent)

\* A ServeImage that registers the image before it knows that the name parses.
ServeImageCA_RegistersFirst(key, ignitionContent, initramfs, static) ==
    /\ handler = "content"
    /\ LET baseImage == getBaseImageCA(initramfs)
           sz == Size(baseImage)
           ret(url, err, cause, name) ==
               Returned(key, "", ignitionContent, initramfs, static,
                        url, err, cause, name)
       IN
       IF ~sz.ok
       THEN /\ last' = ret(NoURL, "InvalidBaseImageError", "stat", "")
            /\ UNCHANGED <<keys, images, size, checkSum>>
       ELSE
       LET basePath == CheckSum(baseImage) IN
       /\ size' = SizeMemo(baseImage)
       /\ IF ~static /\ ~basePath.ok
          THEN /\ last' = ret(NoURL, "InvalidBaseImageError", "open", "")
               /\ UNCHANGED <<keys, images, checkSum>>
          ELSE
          LET name == nameCA(key, basePath.val, ignitionContent, static)
              p == urlParse(name)
          IN
          /\ checkSum' = IF static THEN checkSum ELSE CheckSumMemo(baseImage)
          /\ IF ~p.ok
             THEN /\ last' = ret(NoURL, "url", "", "")
                  /\ RegisterCA(key, imageFile(name, "", sz.val,
                                               ignitionContent, initramfs))
             ELSE /\ RegisterCA(key, imageFile(name, "", sz.val,
                                               ignitionContent, initramfs))
                  /\ last' = ret(ResolveReference(p), "", "", name)
    /\ UNCHANGED <<handler, disk, minted, issued, revoked>>
    /\ UNCHANGED others

\* ServeImage of the content-addressed handler: what it does to the handler.
ServeCA(key, ignitionContent, initramfs, static) ==
    /\ LET baseImage == getBaseImageCA(initramfs)
           sz == Size(baseImage)
           ret(url, err, cause, name) ==
               Returned(key, "", ignitionContent, initramfs, static,
                        url, err, cause, name)
       IN
       IF ~sz.ok
       THEN /\ last' = ret(NoURL, "InvalidBaseImageError", "stat", "")
            /\ UNCHANGED <<keys, images, size, checkSum>>
       ELSE
       LET basePath == CheckSum(baseImage) IN
       /\ size' = SizeMemo(baseImage)
       /\ IF ~static /\ ~basePath.ok
          THEN /\ last' = ret(NoURL, "InvalidBaseImageError", "open", "")
               /\ UNCHANGED <<keys, images, checkSum>>
          ELSE
          LET name == nameCA(key, basePath.val, ignitionContent, static)
              p == urlParse(name)
          IN
          /\ checkSum' = IF static THEN checkSum ELSE CheckSumMemo(baseImage)
          /\ IF ~p.ok
             THEN /\ last' = ret(NoURL, "url", "", "")
                  /\ UNCHANGED <<keys, images>>
             ELSE /\ RegisterCA(key, imageFile(name, "", sz.val,
                                               ignitionContent, initramfs))
                  /\ last' = ret(ResolveReference(p), "", "", name)

ServeImageCA(key, ignitionContent, initramfs, static) ==
    /\ handler = "content"
    /\ ServeCA(key, ignitionContent, initramfs, static)
    /\ UNCHANGED <<handler, disk, minted, issued, revoked>>
    /\ UNCHANGED others

imageFileByNameCA(name) ==
    IF name \in DOMAIN keys
    THEN IF keys[name] \in DOMAIN images THEN images[keys[name]] ELSE nil
    ELSE nil

\* A RemoveImage that forgets delete(f.keys, img.name).
UnregisterCA_KeepsName(key) ==
    IF key \in DOMAIN images
    THEN /\ keys' = keys
         /\ images' = [k \in DOMAIN images \ {key} |-> images[k]]
    ELSE /\ keys' = keys
         /\ images' = images

\* The two deletes of RemoveImage.
UnregisterCA(key) ==
    IF key \in DOMAIN images
    THEN /\ keys' = [n \in DOMAIN keys \ {images[key].name} |-> keys[n]]
         /\ images' = [k \in DOMAIN images \ {key} |-> images[k]]
    ELSE /\ keys' = keys
         /\ images' = images

RemoveImageCA(key) ==
    /\ handler = "content"
    /\ UnregisterCA(key)
    /\ last' = Removed(key)
    /\ UNCHANGED <<handler, size, checkSum, disk, minted, issued, revoked>>
    /\ UNCHANGED others

-----------------------------------------------------------------------------
(* The calls a client of the handler can make, one at a time. *)

Next ==
    \/ \E c \in Calls, arch \in Archs, ignitionContent \in Payloads,
          initramfs \in BOOLEAN, randOK \in BOOLEAN :
          ServeImage(c[1], arch, ignitionContent, initramfs, c[2], randOK)
    \/ \E key \in Keys \cup {BadKey} : RemoveImage(key)
    \/ \E c \in Calls, ignitionContent \in Payloads, initramfs \in BOOLEAN :
          ServeImageCA(c[1], ignitionContent, initramfs, c[2])
    \/ \E key \in Keys \cup {BadKey} : RemoveImageCA(key)

Spec == Init /\ [][Next]_vars

-----------------------------------------------------------------------------
(* The UUID-naming handler over several shared directories and architectures. *)

\* Architectures asked for: none, the "host" entry by its name, one with an
\* ISO only, one with an initramfs only, one with no file.
ArchsAsked == {"", "host", "aarch64", "ppc64le", "s390x"}

\* The calls made: one key, static or not.
CallsAsked == {"test-key-1"} \X BOOLEAN

InitArch == \E listing \in Listings : NewImageHandler("uuid", listing)

NextArch ==
    \/ \E c \in CallsAsked, arch \in ArchsAsked, initramfs \in BOOLEAN, randOK \in BOOLEAN :
          ServeImage(c[1], arch, <<0, 1>>, initramfs, c[2], randOK)
    \/ \E c \in CallsAsked : RemoveImage(c[1])

SpecArch == InitArch /\ [][NextArch]_vars

-----------------------------------------------------------------------------
(* What the last call was. *)

Served == last.op = "serve" /\ last.err = ""

ServedUUID == handler = "uuid" /\ Served

ServedCA == handler = "content" /\ Served

\* The same of the call a step makes.
ServedNext == last'.op = "serve" /\ last'.err = ""

\* The URL a name is served under.
URLOf(name) == baseURL \o EscapedPath("/" \o name)

\* A key that url.Parse and URL.String leave as it is.
URLSafe(key) == ~InvalidEscape("/" \o key) /\ EscapedPath("/" \o key) = "/" \o key

\* The architecture under which the index holds what arch asks for.
IndexArch(arch) == IF arch = "" THEN "host" ELSE arch

\* The shared directory holds a file of this architecture and format.
HasBaseFile(arch, initramfs) ==
    \E n \in dir :
        /\ parseIronicImage(n).ok
        /\ parseIronicImage(n).arch = IndexArch(arch)
        /\ IF initramfs THEN parseIronicImage(n).initramfs ELSE parseIronicImage(n).iso

-----------------------------------------------------------------------------
(* Concurrent callers: ServeImage, RemoveImage and imageFileByName statement *)
(* by statement, with the mutex f.mu.                                        *)

\* At most MaxReaders derivation readers are opened in a behaviour.
MaxReaders == 1

\* What no call of a goroutine changes.
fixed == <<handler, disk, dir, issued, revoked, built, known, cluster, proc>>

\* f.mu.Lock() and the deferred f.mu.Unlock().
Acquire(p) == mu = NoProc /\ mu' = p

Release(p) == mu' = IF mu = p THEN NoProc ELSE mu

At(p, op, at) == pc[p].op = op /\ pc[p].at = at

\* The goroutine goes on to statement at with the locals given.
Goto(p, at, locals) == pc' = [pc EXCEPT ![p] = locals @@ [pc[p] EXCEPT !.at = at]]

\* The goroutine leaves ServeImage with an error: to its return.
Fail(p, err, cause) ==
    pc' = [pc EXCEPT ![p] = [pc[p] EXCEPT !.at = "return", !.err = err, !.cause = cause]]

\* ServeImage is entered.  The content-addressed getBaseImage is a field read.
ServeBegin(p, key, initramfs, static) ==
    /\ pc[p] = Idle
    /\ pc' = [pc EXCEPT ![p] =
                [op |-> "serve",
                 at |-> IF handler = "content" THEN "stat" ELSE "getBase",
                 key |-> key, arch |-> "", payload |-> <<0, 1>>,
                 initramfs |-> initramfs, static |-> static,
                 file |-> IF handler = "content" THEN getBaseImageCA(initramfs) ELSE "",
                 sz |-> 0, name |-> "", url |-> NoURL, err |-> "", cause |-> ""]]
    /\ UNCHANGED <<keys, images, size, checkSum, minted, last, mu, readers>>
    /\ UNCHANGED fixed

\* baseImage, found := f.getBaseImage(arch, initramfs), UUID-naming handler.
ServeGetBase(p) ==
    /\ At(p, "serve", "getBase")
    /\ LET base == getBaseImage(pc[p].arch, pc[p].initramfs) IN
       IF base.found
       THEN Goto(p, "stat", [file |-> base.file])
       ELSE Fail(p, "InvalidBaseImageError", "not found")
    /\ UNCHANGED <<keys, images, size, checkSum, minted, last, mu, readers>>
    /\ UNCHANGED fixed

\* A ServeImage that takes the mutex before it looks at the base file.
ServeStat_UnderLock(p) ==
    /\ At(p, "serve", "stat")
    /\ Acquire(p)
    /\ UNCHANGED <<keys, images, size, checkSum, minted, last, pc, readers>>
    /\ UNCHANGED fixed

\* size, err := baseImage.Size(); with static the content-addressed name is
\* "/" and the key.
ServeStat(p) ==
    /\ At(p, "serve", "stat")
    /\ LET sz == Size(pc[p].file) IN
       /\ size' = SizeMemo(pc[p].file)
       /\ IF ~sz.ok
          THEN Fail(p, "InvalidBaseImageError", "stat")
          ELSE IF handler = "content"
               THEN IF pc[p].static
                    THEN Goto(p, "lock", [sz |-> sz.val,
                              name |-> nameCA(pc[p].key, "", pc[p].payload, TRUE)])
                    ELSE Goto(p, "hash", [sz |-> sz.val])
               ELSE Goto(p, "lock", [sz |-> sz.val])
    /\ UNCHANGED <<keys, images, checkSum, minted, last, mu, readers>>
    /\ UNCHANGED fixed

\* basePath, err := baseImage.CheckSum() and the name, content-addressed handler.
ServeHash(p) ==
    /\ At(p, "serve", "hash")
    /\ LET basePath == CheckSum(pc[p].file) IN
       /\ checkSum' = CheckSumMemo(pc[p].file)
       /\ IF ~basePath.ok
          THEN Fail(p, "InvalidBaseImageError", "open")
          ELSE Goto(p, "lock",
                    [name |-> nameCA(pc[p].key, basePath.val, pc[p].payload, FALSE)])
    /\ UNCHANGED <<keys, images, size, minted, last, mu, readers>>
    /\ UNCHANGED fixed

\* A ServeImage that goes on without taking the mutex.
ServeLock_NoLock(p) ==
    /\ At(p, "serve", "lock")
    /\ Goto(p, IF handler = "content" THEN "register" ELSE "name", <<>>)
    /\ UNCHANGED <<keys, images, size, checkSum, minted, last, mu, readers>>
    /\ UNCHANGED fixed

\* f.mu.Lock() of ServeImage.
ServeLock(p) ==
    /\ At(p, "serve", "lock")
    /\ Acquire(p)
    /\ Goto(p, IF handler = "content" THEN "register" ELSE "name", <<>>)
    /\ UNCHANGED <<keys, images, size, checkSum, minted, last, readers>>
    /\ UNCHANGED fixed

\* name := key, or f.getNameForKey(key), UUID-naming handler.
ServeName(p) ==
    /\ At(p, "serve", "name")
    /\ LET got == nameOf(pc[p].key, pc[p].static, TRUE) IN
       /\ minted + got.drawn <= MaxUUID
       /\ minted' = minted + got.drawn
       /\ Goto(p, "register", [name |-> got.name])
    /\ UNCHANGED <<keys, images, size, checkSum, last, mu, readers>>
    /\ UNCHANGED fixed

\* The name as url.Parse is given it: the content-addressed name has its "/".
RawPath(name) == IF handler = "content" THEN name ELSE "/" \o name

\* A ServeImage that opens the derivation reader when it registers the image.
ServeRegister_OpensReader(p) ==
    /\ At(p, "serve", "register")
    /\ readers < MaxReaders
    /\ readers' = readers + 1
    /\ Register(pc[p].key, imageFile(pc[p].name, pc[p].arch, pc[p].sz,
                                      pc[p].payload, pc[p].initramfs))
    /\ Goto(p, "return", [url |-> ResolveReference(urlParse(RawPath(pc[p].name)))])
    /\ UNCHANGED <<size, checkSum, minted, last, mu>>
    /\ UNCHANGED fixed

\* url.Parse of the name, the registration, and the URL to return.
ServeRegister(p) ==
    /\ At(p, "serve", "register")
    /\ LET parsed == urlParse(RawPath(pc[p].name)) IN
       IF ~parsed.ok
       THEN /\ Fail(p, "url", "")
            /\ UNCHANGED <<keys, images>>
       ELSE /\ Register(pc[p].key, imageFile(pc[p].name, pc[p].arch, pc[p].sz,
                                             pc[p].payload, pc[p].initramfs))
            /\ Goto(p, "return", [url |-> ResolveReference(parsed)])
    /\ UNCHANGED <<size, checkSum, minted, last, mu, readers>>
    /\ UNCHANGED fixed

\* ServeImage returns; the deferred f.mu.Unlock() runs if the mutex was taken.
ServeReturn(p) ==
    /\ At(p, "serve", "return")
    /\ Release(p)
    /\ last' = Returned(pc[p].key, pc[p].arch, pc[p].payload, pc[p].initramfs,
                        pc[p].static, pc[p].url, pc[p].err, pc[p].cause,
                        IF pc[p].err = "" THEN pc[p].name ELSE "")
    /\ pc' = [pc EXCEPT ![p] = Idle]
    /\ UNCHANGED <<keys, images, size, checkSum, minted, readers>>
    /\ UNCHANGED fixed

\* RemoveImage is entered.
RemoveBegin(p, key) ==
    /\ pc[p] = Idle
    /\ pc' = [pc EXCEPT ![p] = [op |-> "remove", at |-> "lock", key |-> key]]
    /\ UNCHANGED <<keys, images, size, checkSum, minted, last, mu, readers>>
    /\ UNCHANGED fixed

\* f.mu.Lock() of RemoveImage.
RemoveLock(p) ==
    /\ At(p, "remove", "lock")
    /\ Acquire(p)
    /\ Goto(p, "delete", <<>>)
    /\ UNCHANGED <<keys, images, size, checkSum, minted, last, readers>>
    /\ UNCHANGED fixed

\* The two deletes of RemoveImage.
RemoveDelete(p) ==
    /\ At(p, "remove", "delete")
    /\ Unregister(pc[p].key)
    /\ Goto(p, "return", <<>>)
    /\ UNCHANGED <<size, checkSum, minted, last, mu, readers>>
    /\ UNCHANGED fixed

\* RemoveImage returns; the deferred f.mu.Unlock() runs.
RemoveReturn(p) ==
    /\ At(p, "remove", "return")
    /\ Release(p)
    /\ last' = Removed(pc[p].key)
    /\ pc' = [pc EXCEPT ![p] = Idle]
    /\ UNCHANGED <<keys, images, size, checkSum, minted, readers>>
    /\ UNCHANGED fixed

\* What imageFileByName returned, and to whom: a caller that only looks the
\* name up, or one that opens the file to read it.
Looked(caller, name, img) ==
    [op |-> caller, key |-> "", arch |-> "", payload |-> <<>>,
     initramfs |-> FALSE, static |-> FALSE,
     url |-> NoURL, err |-> "", cause |-> "", name |-> name, found |-> img # nil]

\* imageFileByName is entered, by a caller that looks a name up ("lookup") or
\* by the opening of a served file ("open").
LookupBegin(p, caller, name) ==
    /\ pc[p] = Idle
    /\ pc' = [pc EXCEPT ![p] = [op |-> caller, at |-> "lock", name |-> name, img |-> nil]]
    /\ UNCHANGED <<keys, images, size, checkSum, minted, last, mu, readers>>
    /\ UNCHANGED fixed

\* f.mu.Lock() of imageFileByName.
LookupLock(p) ==
    /\ pc[p].op \in {"lookup", "open"} /\ pc[p].at = "lock"
    /\ Acquire(p)
    /\ Goto(p, "read", <<>>)
    /\ UNCHANGED <<keys, images, size, checkSum, minted, last, readers>>
    /\ UNCHANGED fixed

\* An imageFileByName that drops the entry of the name it has read.
LookupRead_Evicts(p) ==
    /\ pc[p].op \in {"lookup", "open"} /\ pc[p].at = "read"
    /\ Goto(p, "return", [img |-> imageFileByName(pc[p].name)])
    /\ keys' = [n \in DOMAIN keys \ {pc[p].name} |-> keys[n]]
    /\ UNCHANGED <<images, size, checkSum, minted, last, mu, readers>>
    /\ UNCHANGED fixed

\* if key, exists := f.keys[name]; exists { return f.images[key] }; return nil.
LookupRead(p) ==
    /\ pc[p].op \in {"lookup", "open"} /\ pc[p].at = "read"
    /\ Goto(p, "return", [img |-> imageFileByName(pc[p].name)])
    /\ UNCHANGED <<keys, images, size, checkSum, minted, last, mu, readers>>
    /\ UNCHANGED fixed

\* imageFileByName returns; the deferred f.mu.Unlock() runs.  The caller that
\* opens the file goes on to the reader when the name was found.
LookupReturn(p) ==
    /\ pc[p].op \in {"lookup", "open"} /\ pc[p].at = "return"
    /\ Release(p)
    /\ last' = Looked(pc[p].op, pc[p].name, pc[p].img)
    /\ pc' = [pc EXCEPT ![p] = IF pc[p].op = "open" /\ pc[p].img # nil
                               THEN [pc[p] EXCEPT !.at = "reader"]
                               ELSE Idle]
    /\ UNCHANGED <<keys, images, size, checkSum, minted, readers>>
    /\ UNCHANGED fixed

\* Opening a derived artifact for reading: the image-editing collaborator is
\* invoked with the base and the stored payload, outside the lock.
OpenReader(p) ==
    /\ At(p, "open", "reader")
    /\ readers < MaxReaders
    /\ readers' = readers + 1
    /\ pc' = [pc EXCEPT ![p] = Idle]
    /\ UNCHANGED <<keys, images, size, checkSum, minted, last, mu>>
    /\ UNCHANGED fixed

\* The names a client asks for: the registered ones and one that never is.
NamesAsked == DOMAIN keys \cup {"no-such-name"}

\* Either handler; its ISO is in place, its initramfs in any condition.
InitLock ==
    /\ \E h \in {"uuid", "content"} : NewImageHandler(h, HostOnly)
    /\ \A f \in HandlerFiles(handler) : IsIso(f) => disk[f] = OnDisk(f)

NextLock ==
    \E p \in Procs :
        \/ \E c \in CallsAsked, initramfs \in BOOLEAN : ServeBegin(p, c[1], initramfs, c[2])
        \/ ServeGetBase(p)
        \/ ServeStat(p)
        \/ ServeHash(p)
        \/ ServeLock(p)
        \/ ServeName(p)
        \/ ServeRegister(p)
        \/ ServeReturn(p)
        \/ \E c \in CallsAsked : RemoveBegin(p, c[1])
        \/ RemoveLock(p)
        \/ RemoveDelete(p)
        \/ RemoveReturn(p)
        \/ \E caller \in {"lookup", "open"}, name \in NamesAsked : LookupBegin(p, caller, name)
        \/ LookupLock(p)
        \/ LookupRead(p)
        \/ LookupReturn(p)
        \/ OpenReader(p)

SpecLock == InitLock /\ [][NextLock]_vars

-----------------------------------------------------------------------------
(* The UUID-naming handler with both kinds of name in use: a key served with
   either value of static, and keys served with static = true that are names
   the handler has minted before (a caller reads the name in the URL). *)

\* The names minted so far.
Minted == {UUIDs[i] : i \in 1..minted}

InitMixed ==
    /\ NewImageHandler("uuid", HostOnly)
    /\ \A f \in DOMAIN disk : disk[f] = OnDisk(f)

NextMixed ==
    \/ \E c \in CallsAsked, ignitionContent \in Payloads, initramfs \in BOOLEAN :
          ServeImage(c[1], "", ignitionContent, initramfs, c[2], TRUE)
    \/ \E key \in Minted, ignitionContent \in Payloads, initramfs \in BOOLEAN :
          ServeImage(key, "", ignitionContent, initramfs, TRUE, TRUE)
    \/ \E key \in {c[1] : c \in CallsAsked} \cup Minted : RemoveImage(key)

SpecMixed == InitMixed /\ [][NextMixed]_vars

-----------------------------------------------------------------------------
(* Two goroutines that call ServeImage of the UUID-naming handler for one
   key with static = false, for either format, and nothing else. *)

RaceKey == "test-key-1"

InitRace == NewImageHandler("uuid", HostOnly)

NextRace ==
    \E p \in Procs :
        \/ \E initramfs \in BOOLEAN : ServeBegin(p, RaceKey, initramfs, FALSE)
        \/ ServeGetBase(p)
        \/ ServeStat(p)
        \/ ServeLock(p)
        \/ ServeName(p)
        \/ ServeRegister(p)
        \/ ServeReturn(p)

SpecRace == InitRace /\ [][NextRace]_vars

-----------------------------------------------------------------------------
(* The base files by themselves: calls of Size and CheckSum. *)

\* Size and CheckSum are called at most MaxCalls times in a behaviour.
MaxCalls == 4

\* An empty base file; its checksum is the SHA-256 of no bytes.
Empty(f) == [exists |-> TRUE, readable |-> TRUE, size |-> 0, sum |-> Sha256Hex(<<>>)]

\* How many calls of Size and CheckSum were made so far.
CallsMade == IF last.op = "none" THEN 0 ELSE last.n

\* The calls of Size and CheckSum that returned an error so far.
CallsFailed == IF last.op = "none" THEN {} ELSE last.failed

\* What a call of a method of a base file returned, whether it went to
\* storage (os.Stat, os.Open), how many calls were made so far and which of
\* them failed.
BaseCall(method, f, res, touched) ==
    [op |-> method, file |-> f, ok |-> res.ok, val |-> res.val,
     touched |-> touched, n |-> CallsMade + 1,
     failed |-> CallsFailed \cup (IF res.ok THEN {} ELSE {<<method, f>>})]

\* The first successful result of a method on a file is kept.
Learn(method, f, res) ==
    IF res.ok /\ <<method, f>> \notin DOMAIN known
    THEN (<<method, f>> :> res.val) @@ known
    ELSE known

\* A call of baseFileData.Size.
SizeCall(f) ==
    /\ CallsMade < MaxCalls
    /\ last' = BaseCall("Size", f, Size(f), size[f] = 0)
    /\ size' = SizeMemo(f)
    /\ known' = Learn("Size", f, Size(f))
    /\ UNCHANGED <<handler, keys, images, checkSum, disk, minted, issued, revoked,
                   dir, mu, pc, readers, built, cluster, proc>>

\* A call of baseFileData.CheckSum.
CheckSumCall(f) ==
    /\ CallsMade < MaxCalls
    /\ last' = BaseCall("CheckSum", f, CheckSum(f), checkSum[f] = "")
    /\ checkSum' = CheckSumMemo(f)
    /\ known' = Learn("CheckSum", f, CheckSum(f))
    /\ UNCHANGED <<handler, keys, images, size, disk, minted, issued, revoked,
                   dir, mu, pc, readers, built, cluster, proc>>

\* The environment: a base file that was missing or unreadable is put in place.
Provide(f) ==
    /\ ~(disk[f].exists /\ disk[f].readable)
    /\ \E file \in {OnDisk(f), Empty(f)} : disk' = [disk EXCEPT ![f] = file]
    /\ UNCHANGED <<handler, keys, images, size, checkSum, minted, last, issued, revoked,
                   dir, mu, pc, readers, built, known, cluster, proc>>

\* The two base files of a content-addressed handler, in any condition.
InitBase ==
    /\ handler = "content"
    /\ dir = {}
    /\ keys = <<>>
    /\ images = <<>>
    /\ size = [f \in HandlerFiles(handler) |-> 0]
    /\ checkSum = [f \in HandlerFiles(handler) |-> ""]
    /\ disk \in [HandlerFiles(handler) ->
                    UNION {OnStorage(handler, f) \cup {Empty(f)} : f \in HandlerFiles(handler)}]
    /\ \A f \in HandlerFiles(handler) : disk[f] \in OnStorage(handler, f) \cup {Empty(f)}
    /\ minted = 0
    /\ last = NoCall
    /\ issued = [k \in Keys |-> NoURL]
    /\ revoked = NoRevoked
    /\ mu = NoProc
    /\ pc = [p \in Procs |-> Idle]
    /\ readers = 0
    /\ built = NoBuild
    /\ known = <<>>
    /\ cluster = NoCluster
    /\ proc = Started

NextBase ==
    \/ \E f \in HandlerFiles(handler) : SizeCall(f)
    \/ \E f \in HandlerFiles(handler) : CheckSumCall(f)
    \/ \E f \in HandlerFiles(handler) : Provide(f)

SpecBase == InitBase /\ [][NextBase]_vars

-----------------------------------------------------------------------------
(* Concurrent callers under fair scheduling.  The goroutines are scheduled
   fairly, and sync.Mutex hands the mutex to a goroutine that has waited for
   it (its starvation mode), so a goroutine that is at f.mu.Lock() while the
   mutex is freed again and again gets it. *)

\* A getNameForKey after which ServeImage returns without its deferred
\* f.mu.Unlock() when uuid.NewRandom fails.
ServeNameOrFail_KeepsLock(p) ==
    /\ At(p, "serve", "name")
    /\ \E randOK \in BOOLEAN :
          LET got == nameOf(pc[p].key, pc[p].static, randOK) IN
          IF got.ok
          THEN /\ minted + got.drawn <= MaxUUID
               /\ minted' = minted + got.drawn
               /\ Goto(p, "register", [name |-> got.name])
          ELSE /\ pc' = [pc EXCEPT ![p] = Idle]
               /\ UNCHANGED minted
    /\ UNCHANGED <<keys, images, size, checkSum, last, mu, readers>>
    /\ UNCHANGED fixed

\* name := key, or name, err = f.getNameForKey(key); if err != nil { return
\* "", err }.  uuid.NewRandom succeeds or fails; it fails when the UUIDs of
\* the model are used up.
ServeNameOrFail(p) ==
    /\ At(p, "serve", "name")
    /\ \E randOK \in BOOLEAN :
          LET got == nameOf(pc[p].key, pc[p].static, randOK) IN
          IF got.ok
          THEN /\ minted + got.drawn <= MaxUUID
               /\ minted' = minted + got.drawn
               /\ Goto(p, "register", [name |-> got.name])
          ELSE /\ Fail(p, "uuid", "")
               /\ UNCHANGED minted
    /\ UNCHANGED <<keys, images, size, checkSum, last, mu, readers>>
    /\ UNCHANGED fixed

\* The calls made: a key that gets a generated name, and a static key that
\* url.Parse rejects.
CallsLive == {<<"test-key-1", FALSE>>, <<BadKey, TRUE>>}

\* A statement of a call under way that is not a f.mu.Lock().
Step(p) ==
    \/ ServeGetBase(p)
    \/ ServeStat(p)
    \/ ServeHash(p)
    \/ ServeNameOrFail(p)
    \/ ServeRegister(p)
    \/ ServeReturn(p)
    \/ RemoveDelete(p)
    \/ RemoveReturn(p)
    \/ LookupRead(p)
    \/ LookupReturn(p)

\* f.mu.Lock() of any of the three operations.
Lock(p) == ServeLock(p) \/ RemoveLock(p) \/ LookupLock(p)

\* A goroutine enters one of the three operations.
Begin(p) ==
    \/ \E c \in CallsLive : ServeBegin(p, c[1], FALSE, c[2])
    \/ \E c \in CallsLive : RemoveBegin(p, c[1])
    \/ \E name \in NamesAsked : LookupBegin(p, "lookup", name)

InitLive == InitLock

NextLive == \E p \in Procs : Begin(p) \/ Step(p) \/ Lock(p)

Fairness == \A p \in Procs : WF_vars(Step(p)) /\ SF_vars(Lock(p))

SpecLive == InitLive /\ [][NextLive]_vars /\ Fairness

-----------------------------------------------------------------------------
(* Size and CheckSum called by two goroutines at once, statement by
   statement.  ServeImage calls both before it takes the mutex, and
   baseFileData has no lock of its own: the reads and writes of bf.size and
   bf.checkSum race.  bf.size is one machine word.  bf.checkSum is a string,
   two words (pointer and length) that an assignment stores one after the
   other: a goroutine that reads the field between the two stores may see
   the new length with the old pointer. *)

\* A string field of which the length is written and the pointer is not.
HalfWritten == "<length of the new string, pointer of the old one>"

\* What a call of a method returned to a goroutine.
MemoResult(p, ok, val) ==
    [op |-> pc[p].op, file |-> pc[p].file, ok |-> ok, val |-> val, proc |-> p]

\* Size or CheckSum is entered.
MemoBegin(p, method, f) ==
    /\ pc[p] = Idle
    /\ pc' = [pc EXCEPT ![p] = [op |-> method, at |-> "test", file |-> f]]
    /\ UNCHANGED <<keys, images, size, checkSum, minted, last, mu, readers>>
    /\ UNCHANGED fixed

\* if bf.size == 0
SizeTest(p) ==
    /\ At(p, "Size", "test")
    /\ Goto(p, IF size[pc[p].file] = 0 THEN "stat" ELSE "return", <<>>)
    /\ UNCHANGED <<keys, images, size, checkSum, minted, last, mu, readers>>
    /\ UNCHANGED fixed

\* fi, err := os.Stat(bf.filename); if err != nil { return 0, err }
SizeStat(p) ==
    /\ At(p, "Size", "stat")
    /\ IF disk[pc[p].file].exists
       THEN /\ Goto(p, "store", [fi |-> disk[pc[p].file].size])
            /\ UNCHANGED last
       ELSE /\ last' = MemoResult(p, FALSE, 0)
            /\ pc' = [pc EXCEPT ![p] = Idle]
    /\ UNCHANGED <<keys, images, size, checkSum, minted, mu, readers>>
    /\ UNCHANGED fixed

\* bf.size = fi.Size()
SizeStore(p) ==
    /\ At(p, "Size", "store")
    /\ size' = [size EXCEPT ![pc[p].file] = pc[p].fi]
    /\ Goto(p, "return", <<>>)
    /\ UNCHANGED <<keys, images, checkSum, minted, last, mu, readers>>
    /\ UNCHANGED fixed

\* return bf.size, nil
SizeReturn(p) ==
    /\ At(p, "Size", "return")
    /\ last' = MemoResult(p, TRUE, size[pc[p].file])
    /\ pc' = [pc EXCEPT ![p] = Idle]
    /\ UNCHANGED <<keys, images, size, checkSum, minted, mu, readers>>
    /\ UNCHANGED fixed

\* if bf.checkSum == "": the length of the string is compared with 0.
CheckSumTest(p) ==
    /\ At(p, "CheckSum", "test")
    /\ Goto(p, IF checkSum[pc[p].file] = "" THEN "hash" ELSE "return", <<>>)
    /\ UNCHANGED <<keys, images, size, checkSum, minted, last, mu, readers>>
    /\ UNCHANGED fixed

\* os.Open, io.Copy into the hash, hex.EncodeToString; an error is returned.
CheckSumHash(p) ==
    /\ At(p, "CheckSum", "hash")
    /\ IF disk[pc[p].file].exists /\ disk[pc[p].file].readable
       THEN /\ Goto(p, "store", [sum |-> disk[pc[p].file].sum])
            /\ UNCHANGED last
       ELSE /\ last' = MemoResult(p, FALSE, "")
            /\ pc' = [pc EXCEPT ![p] = Idle]
    /\ UNCHANGED <<keys, images, size, checkSum, minted, mu, readers>>
    /\ UNCHANGED fixed

\* bf.checkSum = hex.EncodeToString(hash.Sum(nil)): both words at once as far
\* as others can tell, or the length first.  Over a string of the same
\* length the new length changes nothing.
CheckSumStore(p) ==
    /\ At(p, "CheckSum", "store")
    /\ \/ /\ checkSum' = [checkSum EXCEPT ![pc[p].file] = pc[p].sum]
          /\ Goto(p, "return", <<>>)
       \/ /\ checkSum' = [checkSum EXCEPT ![pc[p].file] =
                              IF @ = "" THEN HalfWritten ELSE @]
          /\ Goto(p, "pointer", <<>>)
    /\ UNCHANGED <<keys, images, size, minted, last, mu, readers>>
    /\ UNCHANGED fixed

\* The pointer of the string is stored.
CheckSumStorePointer(p) ==
    /\ At(p, "CheckSum", "pointer")
    /\ checkSum' = [checkSum EXCEPT ![pc[p].file] = pc[p].sum]
    /\ Goto(p, "return", <<>>)
    /\ UNCHANGED <<keys, images, size, minted, last, mu, readers>>
    /\ UNCHANGED fixed

\* return bf.checkSum, nil
CheckSumReturn(p) ==
    /\ At(p, "CheckSum", "return")
    /\ last' = MemoResult(p, TRUE, checkSum[pc[p].file])
    /\ pc' = [pc EXCEPT ![p] = Idle]
    /\ UNCHANGED <<keys, images, size, checkSum, minted, mu, readers>>
    /\ UNCHANGED fixed

InitMemo == NewImageHandler("content", HostOnly)

NextMemo ==
    \E p \in Procs :
        \/ \E method \in {"Size", "CheckSum"}, f \in HandlerFiles(handler) :
              MemoBegin(p, method, f)
        \/ SizeTest(p)
        \/ SizeStat(p)
        \/ SizeStore(p)
        \/ SizeReturn(p)
        \/ CheckSumTest(p)
        \/ CheckSumHash(p)
        \/ CheckSumStore(p)
        \/ CheckSumStorePointer(p)
        \/ CheckSumReturn(p)

SpecMemo == InitMemo /\ [][NextMemo]_vars

-----------------------------------------------------------------------------
(* The handler with host-architecture fallback. *)

\* env.HostArchitecture(): the architecture of the serving process.
HostArchitecture == "x86_64"

\* Resolve without the fallback rule: the entry of the architecture itself.
getBaseImageFB_NoFallback(arch, initramfs) ==
    LET index == IF initramfs THEN initramfsFiles ELSE isoFiles IN
    IF arch \in DOMAIN index
    THEN [found |-> TRUE, file |-> index[arch]]
    ELSE [found |-> FALSE, file |-> ""]

\* Resolve(architecture, wantRamdisk): the entry of the architecture; when
\* the architecture is the host's own and has no file of its own, the "host"
\* entry.
getBaseImageFB(arch, initramfs) ==
    LET index == IF initramfs THEN initramfsFiles ELSE isoFiles
        own == arch \in DOMAIN isoFiles \/ arch \in DOMAIN initramfsFiles
        a == IF arch = HostArchitecture /\ ~own THEN "host" ELSE arch
    IN
    IF a \in DOMAIN index
    THEN [found |-> TRUE, file |-> index[a]]
    ELSE [found |-> FALSE, file |-> ""]

\* HasImages(architecture): at least one of the two formats resolves.
HasImagesForArchitecture(arch) ==
    getBaseImageFB(arch, FALSE).found \/ getBaseImageFB(arch, TRUE).found

\* What a HasImagesForArchitecture call returned.
Asked(arch, has) ==
    [op |-> "has", key |-> "", arch |-> arch, payload |-> <<>>,
     initramfs |-> FALSE, static |-> FALSE,
     url |-> NoURL, err |-> "", cause |-> "", name |-> "", has |-> has]

ServeImageFB(key, arch, ignitionContent, initramfs, static, randOK) ==
    /\ handler = "fallback"
    /\ ServeFrom(getBaseImageFB(arch, initramfs),
                 key, arch, ignitionContent, initramfs, static, randOK)
    /\ UNCHANGED <<handler, checkSum, disk>>
    /\ UNCHANGED others

HasImagesFB(arch) ==
    /\ handler = "fallback"
    /\ last' = Asked(arch, HasImagesForArchitecture(arch))
    /\ UNCHANGED <<handler, keys, images, size, checkSum, disk, minted, issued, revoked>>
    /\ UNCHANGED others

\* Architectures asked for: the host's own, one that may have files of its
\* own, one that never has.
ArchsFB == {HostArchitecture, "aarch64", "unsupported_arch"}

InitFB == \E listing \in Listings : NewImageHandler("fallback", listing)

NextFB ==
    \/ \E c \in CallsAsked, arch \in ArchsFB, initramfs \in BOOLEAN, randOK \in BOOLEAN :
          ServeImageFB(c[1], arch, <<0, 1>>, initramfs, c[2], randOK)
    \/ \E arch \in ArchsFB : HasImagesFB(arch)

SpecFB == InitFB /\ [][NextFB]_vars

-----------------------------------------------------------------------------
(* The HTTP side: http.FileServer over imageFileSystem.FileSystem() answers a
   GET by opening the path (lookup with imageFileByName, then the derivation
   reader) and streaming what the reader yields. *)

\* What a derivation reader yields: the content of the base file with the
\* Ignition payload embedded.
Derived(f, ignitionContent) == [base |-> disk[f].sum, ignition |-> ignitionContent]

NoBody == [base |-> "", ignition |-> <<>>]

\* An InsertIgnition that embeds nothing.
InsertIgnition_EmbedsNothing(f, ignitionContent) ==
    IF disk[f].exists /\ disk[f].readable
    THEN [ok |-> TRUE, bytes |-> Derived(f, <<>>)]
    ELSE [ok |-> FALSE, bytes |-> NoBody]

\* baseIso.InsertIgnition, baseInitramfs.InsertIgnition: the stream reader
\* over the base file, which has to open it.
InsertIgnition(f, ignitionContent) ==
    IF disk[f].exists /\ disk[f].readable
    THEN [ok |-> TRUE, bytes |-> Derived(f, ignitionContent)]
    ELSE [ok |-> FALSE, bytes |-> NoBody]

\* The name a request path is looked up under: the names of the UUID-naming
\* handler have no leading slash, those of the content-addressed one do.
NameOfPath(path) == IF handler = "content" THEN path ELSE Tail(path)

\* The base file an image was registered for.
BaseOf(img) ==
    IF handler = "content"
    THEN getBaseImageCA(img.initramfs)
    ELSE getBaseImage(img.arch, img.initramfs).file

Got(path, status, body) ==
    [op |-> "get", path |-> path, status |-> status, body |-> body]

\* GET path: 404 when no image is registered under the name, the derived
\* content when its reader opens, a server error when it does not.
Get(path) ==
    /\ handler \in {"uuid", "content"}
    /\ LET img == imageFileByName(NameOfPath(path)) IN
       IF img = nil
       THEN /\ last' = Got(path, 404, NoBody)
            /\ UNCHANGED readers
       ELSE LET reader == InsertIgnition(BaseOf(img), img.ignitionContent) IN
            /\ readers < MaxReaders
            /\ readers' = readers + 1
            /\ last' = IF reader.ok
                       THEN Got(path, 200, reader.bytes)
                       ELSE Got(path, 500, NoBody)
    /\ UNCHANGED <<handler, keys, images, size, checkSum, disk, minted, issued,
                   revoked, dir, mu, pc, built, known, cluster, proc>>

\* The paths requested: those of the registered names, the path of a key
\* (the name of a static image), and one that is never registered.
PathsAsked ==
    {IF handler = "content" THEN n ELSE "/" \o n : n \in DOMAIN keys}
        \cup {"/test-key-1", "/no-such-name"}

InitHTTP == \E h \in {"uuid", "content"} : NewImageHandler(h, HostOnly)

NextHTTP ==
    \/ \E c \in CallsAsked, initramfs \in BOOLEAN :
          ServeImage(c[1], "", <<0, 1>>, initramfs, c[2], TRUE)
    \/ \E c \in CallsAsked : RemoveImage(c[1])
    \/ \E c \in CallsAsked, initramfs \in BOOLEAN :
          ServeImageCA(c[1], <<0, 1>>, initramfs, c[2])
    \/ \E c \in CallsAsked : RemoveImageCA(c[1])
    \/ \E path \in PathsAsked : Get(path)

SpecHTTP == InitHTTP /\ [][NextHTTP]_vars

-----------------------------------------------------------------------------
(* Discovery of the handler with host-architecture fallback: loadOSImage
   classifies one file name against the configured default images.  File
   names are strings and are taken apart character by character. *)

Char(s, i) == SubSeq(s, i, i)

\* The index of the last c in s, 0 when there is none.
LastIndex(s, c) ==
    LET I == {i \in 1..Len(s) : Char(s, i) = c} IN
    IF I = {} THEN 0 ELSE CHOOSE i \in I : \A j \in I : j <= i

\* path.Base of a path that does not end in a slash.
pathBase(s) == SubSeq(s, LastIndex(s, "/") + 1, Len(s))

\* path.Ext: the suffix of the last element from its last dot on.
pathExt(s) ==
    LET b == pathBase(s) IN
    IF LastIndex(b, ".") = 0 THEN "" ELSE SubSeq(b, LastIndex(b, "."), Len(b))

\* The last element without its extension.
Stem(s) == SubSeq(pathBase(s), 1, Len(pathBase(s)) - Len(pathExt(s)))

\* The characters \w matches.
WordChars ==
    {"a", "b", "c", "d", "e", "f", "g", "h", "i", "j", "k", "l", "m", "n", "o",
     "p", "q", "r", "s", "t", "u", "v", "w", "x", "y", "z",
     "A", "B", "C", "D", "E", "F", "G", "H", "I", "J", "K", "L", "M", "N", "O",
     "P", "Q", "R", "S", "T", "U", "V", "W", "X", "Y", "Z",
     "0", "1", "2", "3", "4", "5", "6", "7", "8", "9", "_"}

IsWord(s) == Len(s) > 0 /\ \A i \in 1..Len(s) : Char(s, i) \in WordChars

NoOSImage == [ok |-> FALSE, arch |-> "", iso |-> FALSE, initramfs |-> FALSE]

\* A loadOSImage that accepts any base name in front of the architecture.
loadOSImage_AnyBaseName(envInputs, filename) ==
    IF filename = envInputs.DeployISO
    THEN [ok |-> TRUE, arch |-> "host", iso |-> TRUE, initramfs |-> FALSE]
    ELSE IF filename = envInputs.DeployInitrd
    THEN [ok |-> TRUE, arch |-> "host", iso |-> FALSE, initramfs |-> TRUE]
    ELSE
    LET ext == pathExt(filename)
        rest == Stem(filename)
        seps == {i \in 1..Len(rest) : Char(rest, i) \in {"_", "."}}
    IN
    IF ext \notin {".iso", ".initramfs", ".initrd"} \/ seps = {}
    THEN NoOSImage
    ELSE LET at == CHOOSE i \in seps : \A j \in seps : i <= j
             arch == SubSeq(rest, at + 1, Len(rest))
         IN
         IF IsWord(arch)
         THEN [ok |-> TRUE, arch |-> arch,
               iso |-> ext = ".iso", initramfs |-> ext # ".iso"]
         ELSE NoOSImage

\* loadOSImage: the configured default paths are the host images; any other
\* file must be named <default base name><"_" or "."><architecture>.<ext>,
\* ext telling an ISO (iso) from an initramfs (initramfs, initrd).
loadOSImage(envInputs, filename) ==
    IF filename = envInputs.DeployISO
    THEN [ok |-> TRUE, arch |-> "host", iso |-> TRUE, initramfs |-> FALSE]
    ELSE IF filename = envInputs.DeployInitrd
    THEN [ok |-> TRUE, arch |-> "host", iso |-> FALSE, initramfs |-> TRUE]
    ELSE
    LET ext == pathExt(filename)
        rest == Stem(filename)
        base == IF ext = ".iso"
                THEN Stem(envInputs.DeployISO)
                ELSE Stem(envInputs.DeployInitrd)
    IN
    IF ext \notin {".iso", ".initramfs", ".initrd"}
    THEN NoOSImage
    ELSE IF Len(rest) < Len(base) + 2
    THEN NoOSImage
    ELSE IF SubSeq(rest, 1, Len(base)) # base
    THEN NoOSImage
    ELSE IF Char(rest, Len(base) + 1) \notin {"_", "."}
    THEN NoOSImage
    ELSE LET arch == SubSeq(rest, Len(base) + 2, Len(rest)) IN
         IF IsWord(arch)
         THEN [ok |-> TRUE, arch |-> arch,
               iso |-> ext = ".iso", initramfs |-> ext # ".iso"]
         ELSE NoOSImage

\* The configurations of the default images.
EnvInputsAsked ==
    {[DeployISO |-> "/config/ipa.iso", DeployInitrd |-> "/config/ipa.initramfs"],
     [DeployISO |-> "/config/base/ipa.iso",
      DeployInitrd |-> "/config/base/ipa.initramfs"],
     [DeployISO |-> "/config/base/ipa.iso",
      DeployInitrd |-> "/opt/images/ipa.initramfs"]}

\* The file names asked about, by their parts: directory, base name,
\* separator and architecture (both empty: no suffix), extension.
NameParts ==
    [dir : {"", "/config/", "/config/base/", "/images/", "/opt/images/"},
     base : {"ipa", "different-file", "some-other-file"},
     suffix : {<<"", "">>, <<"_", "aarch64">>, <<".", "aarch64">>,
               <<"_", "x86_64">>, <<".", "x86_64">>, <<"-", "aarch64">>},
     ext : {".iso", ".initramfs", ".txt"}]

NameOf(parts) ==
    parts.dir \o parts.base \o parts.suffix[1] \o parts.suffix[2] \o parts.ext

Loaded(envInputs, parts, img) ==
    [op |-> "load", envInputs |-> envInputs, parts |-> parts,
     filename |-> NameOf(parts), img |-> img]

\* The configuration of a process does not change between two calls.
LoadOSImage(envInputs, parts) ==
    /\ handler = "fallback"
    /\ IF last.op = "load" THEN envInputs = last.envInputs ELSE TRUE
    /\ last' = Loaded(envInputs, parts, loadOSImage(envInputs, NameOf(parts)))
    /\ UNCHANGED <<handler, keys, images, size, checkSum, disk, minted, issued,
                   revoked>>
    /\ UNCHANGED others

InitPattern ==
    /\ NewImageHandler("fallback", HostOnly)
    /\ \A f \in DOMAIN disk : disk[f] = OnDisk(f)

NextPattern ==
    \E envInputs \in EnvInputsAsked, parts \in NameParts :
        LoadOSImage(envInputs, parts)

SpecPattern == InitPattern /\ [][NextPattern]_vars

-----------------------------------------------------------------------------
(* The image provider (src/unnamed/part_000:20-143): BuildImage and
   DiscardImage call ServeImage and RemoveImage through the ImageHandler
   interface.  The provider is run over the content-addressed handler, whose
   ServeImage it calls with static = false, and over another implementation
   of the interface ("other"), which registers nothing and whose ServeImage
   returns a URL or fails with an error that is not an InvalidBaseImageError. *)

\* The images a caller asks for: a host, both formats, with or without the
\* Ignition override annotation and the InfraEnv label.
ImageDatas ==
    [Namespace : {"openshift-machine-api"}, Name : {"host-0"},
     UID : {"uid"}, Architecture : {"x86_64"}, Format : {"iso", "initrd"},
     override : BOOLEAN, infraEnv : BOOLEAN]

\* The nmstate data of a call, by what nmstatectl makes of it: none given,
\* accepted, rejected with a message on stderr, or nmstatectl cannot be run.
NetworkDatas == {"", "accepted", "rejected", "notrun"}

\* What ServeImage of the other ImageHandler returns.
OtherOutcomes == {[url |-> "http://other.test/image", err |-> ""],
                  [url |-> "", err |-> "transient"]}

imageKey(data) ==
    data.Namespace \o "-" \o data.Name \o "-" \o data.UID \o "-"
        \o data.Architecture \o "." \o data.Format

\* A getIgnitionOverride that looks at the InfraEnv label first.
getIgnitionOverride_InfraEnvFirst(data, fetched) ==
    IF data.infraEnv
    THEN [val |-> <<>>, err |-> "ImageNotReady"]
    ELSE IF data.override
         THEN IF fetched
              THEN [val |-> <<1, 2>>, err |-> ""]
              ELSE [val |-> <<>>, err |-> "could not download Ignition override"]
         ELSE [val |-> <<>>, err |-> ""]

\* getIgnitionOverride: the downloaded override, ImageNotReady for a host of
\* an InfraEnv without override, or nothing.
getIgnitionOverride(data, fetched) ==
    IF data.override
    THEN IF fetched
         THEN [val |-> <<1, 2>>, err |-> ""]
         ELSE [val |-> <<>>, err |-> "could not download Ignition override"]
    ELSE IF data.infraEnv
         THEN [val |-> <<>>, err |-> "ImageNotReady"]
         ELSE [val |-> <<>>, err |-> ""]

\* buildIgnitionConfig, the EnvInputs being complete: the generated payload
\* (merged with the override when there is one), BuildInvalidError for
\* nmstate data that nmstatectl rejects, its error when it cannot be run.
buildIgnitionConfig(networkData, hostname, mergeWith) ==
    CASE networkData = "rejected" -> [val |-> <<>>, err |-> "BuildInvalidError"]
      [] networkData = "notrun" -> [val |-> <<>>, err |-> "exec"]
      [] OTHER -> [val |-> IF mergeWith = <<>> THEN <<0, 1>> ELSE mergeWith,
                   err |-> ""]

\* The chain of an error returned by ServeImage: the error and what it
\* wraps; empty for nil.
ErrChain(r) ==
    IF r.err = "" THEN <<>>
    ELSE IF r.cause = "" THEN <<r.err>> ELSE <<r.err, r.cause>>

\* errors.As: some error of the chain is of the target type.
errorsAs(chain, target) == \E i \in DOMAIN chain : chain[i] = target

\* What a BuildImage returned: served says whether it called ServeImage.
Built(data, served, url, err, wraps) ==
    [op |-> "build", key |-> imageKey(data), served |-> served,
     url |-> url, err |-> err, wraps |-> wraps]

\* A BuildImage that converts every error of ServeImage.
Converted_EveryError(data, r) ==
    IF r.err # ""
    THEN Built(data, TRUE, "", "BuildInvalidError", r.err)
    ELSE Built(data, TRUE, r.url, r.err, "")

\* The end of BuildImage, r being what ServeImage returned: BuildInvalidError
\* around an InvalidBaseImageError, otherwise url and err as they are.
Converted(data, r) ==
    IF errorsAs(ErrChain(r), "InvalidBaseImageError")
    THEN Built(data, TRUE, "", "BuildInvalidError", r.err)
    ELSE Built(data, TRUE, r.url, r.err, "")

\* ServeImage of the other ImageHandler.
ServeOther(key, ignitionContent, initramfs, static, out) ==
    /\ last' = Returned(key, "", ignitionContent, initramfs, static,
                        out.url, out.err, "", "")
    /\ UNCHANGED <<keys, images, size, checkSum>>

\* What a BuildImage was called with, kept with what it returned.
CalledWith(data, networkData, fetched) ==
    [data |-> data, networkData |-> networkData, fetched |-> fetched]

\* A BuildImage that calls ServeImage before it looks at the error of
\* buildIgnitionConfig.
BuildImage_ServesFirst(data, networkData, fetched, out) ==
    /\ handler \in {"content", "other"}
    /\ LET mergeWith == getIgnitionOverride(data, fetched) IN
       IF mergeWith.err # ""
       THEN /\ built' = CalledWith(data, networkData, fetched)
                          @@ Built(data, FALSE, "", mergeWith.err, "")
            /\ UNCHANGED <<keys, images, size, checkSum, last>>
       ELSE
       LET ignitionConfig ==
               buildIgnitionConfig(networkData, data.Name, mergeWith.val)
       IN
       /\ IF handler = "content"
          THEN ServeCA(imageKey(data), ignitionConfig.val,
                       data.Format = "initrd", FALSE)
          ELSE ServeOther(imageKey(data), ignitionConfig.val,
                          data.Format = "initrd", FALSE, out)
       /\ built' = CalledWith(data, networkData, fetched)
                   @@ IF ignitionConfig.err # ""
                      THEN Built(data, FALSE, "", ignitionConfig.err, "")
                      ELSE Converted(data, last')
    /\ UNCHANGED <<handler, disk, minted, issued, revoked, dir, mu, pc, readers,
                   known, cluster, proc>>

BuildImage(data, networkData, fetched, out) ==
    /\ handler \in {"content", "other"}
    /\ LET mergeWith == getIgnitionOverride(data, fetched) IN
       IF mergeWith.err # ""
       THEN /\ built' = CalledWith(data, networkData, fetched)
                          @@ Built(data, FALSE, "", mergeWith.err, "")
            /\ UNCHANGED <<keys, images, size, checkSum, last>>
       ELSE
       LET ignitionConfig ==
               buildIgnitionConfig(networkData, data.Name, mergeWith.val)
       IN
       IF ignitionConfig.err # ""
       THEN /\ built' = CalledWith(data, networkData, fetched)
                          @@ Built(data, FALSE, "", ignitionConfig.err, "")
            /\ UNCHANGED <<keys, images, size, checkSum, last>>
       ELSE /\ IF handler = "content"
               THEN ServeCA(imageKey(data), ignitionConfig.val,
                            data.Format = "initrd", FALSE)
               ELSE ServeOther(imageKey(data), ignitionConfig.val,
                               data.Format = "initrd", FALSE, out)
            /\ built' = CalledWith(data, networkData, fetched) @@ Converted(data, last')
    /\ UNCHANGED <<handler, disk, minted, issued, revoked, dir, mu, pc, readers,
                   known, cluster, proc>>

\* DiscardImage: RemoveImage of the key, and nil.
DiscardImage(data) ==
    /\ handler \in {"content", "other"}
    /\ IF handler = "content"
       THEN UnregisterCA(imageKey(data))
       ELSE UNCHANGED <<keys, images>>
    /\ last' = Removed(imageKey(data))
    /\ built' = [op |-> "discard", key |-> imageKey(data), served |-> FALSE,
                 url |-> "", err |-> "", wraps |-> ""]
    /\ UNCHANGED <<handler, size, checkSum, disk, minted, issued, revoked,
                   dir, mu, pc, readers, known, cluster, proc>>

InitBuild == \E h \in {"content", "other"} : NewImageHandler(h, HostOnly)

NextBuild ==
    \/ \E data \in ImageDatas, networkData \in NetworkDatas, fetched \in BOOLEAN,
          out \in OtherOutcomes :
          BuildImage(data, networkData, fetched, out)
    \/ \E data \in ImageDatas : DiscardImage(data)

SpecBuild == InitBuild /\ [][NextBuild]_vars

-----------------------------------------------------------------------------
(* The reconciler of PreprovisioningImage objects (cmd/controller/main.go):
   one image, the ignition secret of its namespace, and the work queue of the
   controller.  A pass of Reconcile is one step; each of its API calls
   succeeds or fails. *)

ignitionSecretName == "metal3-ironic-agent-config"

ignitionSecretAnnotationName == "baremetal.openshift.io/metal3-agent-config"

\* m[name] of a Go map of strings: "" for a key that is not there.
Lookup(m, name) == IF name \in DOMAIN m THEN m[name] ELSE ""

\* What the annotations of an image can be: none, the agent-config
\* annotation with an empty value, the one ensureIgnitionSecret writes.
Annotations == {<<>>,
                ignitionSecretAnnotationName :> "",
                ignitionSecretAnnotationName :> ignitionSecretName}

\* ignition.Base and Generate depend on the environment inputs only: for a
\* process both succeed, or Base fails, or Generate fails, every time.
Builders == {"ok", "base fails", "generate fails"}

\* At most MaxFailures API calls fail in a behaviour: the API calls
\* eventually succeed.
MaxFailures == 2

\* Whether each API call of a pass succeeds (a lookup that reports
\* not-found has succeeded).
Outcomes == [getImage : BOOLEAN, getSecret : BOOLEAN, create : BOOLEAN,
             patch : BOOLEAN, upstream : BOOLEAN]

\* How many of the API calls made failed.
Errors(calls) == Cardinality({i \in DOMAIN calls : calls[i][2] = "error"})

\* An ensureIgnitionSecret that patches the annotation although r.Create
\* failed.
ensureIgnitionSecret_PatchesAfterFailedCreate(c, o) ==
    LET ret(secret, annotations, calls, requeue, err) ==
            [secret |-> secret, annotations |-> annotations, calls |-> calls,
             requeue |-> requeue, err |-> err]
        patch(secret, calls) ==
            IF o.patch
            THEN ret(secret,
                     (ignitionSecretAnnotationName :> ignitionSecretName)
                         @@ c.annotations,
                     Append(calls, <<"Patch", "ok">>), TRUE, "")
            ELSE ret(secret, c.annotations,
                     Append(calls, <<"Patch", "error">>), TRUE, "patch")
    IN
    IF c.builder = "base fails"
    THEN ret(c.secret, c.annotations, <<>>, FALSE, "ignition.Base")
    ELSE IF ~o.getSecret
    THEN ret(c.secret, c.annotations, <<<<"Get secret", "error">>>>, TRUE, "get secret")
    ELSE IF c.secret
    THEN patch(TRUE, <<<<"Get secret", "found">>>>)
    ELSE IF c.builder = "generate fails"
    THEN ret(FALSE, c.annotations, <<<<"Get secret", "not found">>>>, FALSE, "generate")
    ELSE IF ~o.create
    THEN patch(FALSE, <<<<"Get secret", "not found">>, <<"Create", "error">>>>)
    ELSE patch(TRUE, <<<<"Get secret", "not found">>, <<"Create", "ok">>>>)

\* ensureIgnitionSecret on the image as Reconcile read it: the secret and the
\* annotations afterwards, the API calls made, and the ctrl.Result and error
\* returned.
ensureIgnitionSecret(c, o) ==
    LET ret(secret, annotations, calls, requeue, err) ==
            [secret |-> secret, annotations |-> annotations, calls |-> calls,
             requeue |-> requeue, err |-> err]
        patch(secret, calls) ==
            IF o.patch
            THEN ret(secret,
                     (ignitionSecretAnnotationName :> ignitionSecretName)
                         @@ c.annotations,
                     Append(calls, <<"Patch", "ok">>), TRUE, "")
            ELSE ret(secret, c.annotations,
                     Append(calls, <<"Patch", "error">>), TRUE, "patch")
    IN
    IF c.builder = "base fails"
    THEN ret(c.secret, c.annotations, <<>>, FALSE, "ignition.Base")
    ELSE IF ~o.getSecret
    THEN ret(c.secret, c.annotations, <<<<"Get secret", "error">>>>, TRUE, "get secret")
    ELSE IF c.secret
    THEN patch(TRUE, <<<<"Get secret", "found">>>>)
    ELSE IF c.builder = "generate fails"
    THEN ret(FALSE, c.annotations, <<<<"Get secret", "not found">>>>, FALSE, "generate")
    ELSE IF ~o.create
    THEN ret(FALSE, c.annotations,
             <<<<"Get secret", "not found">>, <<"Create", "error">>>>, TRUE, "create")
    ELSE patch(TRUE, <<<<"Get secret", "not found">>, <<"Create", "ok">>>>)

\* What a pass of Reconcile did and returned.
Reconciled(c, secret, annotations, img, ensured, upstream, calls, requeue, err) ==
    [cluster |-> [c EXCEPT !.secret = secret, !.annotations = annotations,
                           !.img = img],
     ensured |-> ensured, upstream |-> upstream, calls |-> calls,
     requeue |-> requeue, err |-> err]

\* A Reconcile that does not look at the deletion timestamp.
Reconcile_EnsuresWhileDeleting(c, o) ==
    IF ~o.getImage
    THEN Reconciled(c, c.secret, c.annotations, c.img, FALSE, FALSE,
                    <<<<"Get image", "error">>>>, FALSE, "get image")
    ELSE IF c.img = "missing"
    THEN Reconciled(c, c.secret, c.annotations, c.img, FALSE, FALSE,
                    <<<<"Get image", "not found">>>>, FALSE, "")
    ELSE IF Lookup(c.annotations, ignitionSecretAnnotationName) = ""
    THEN LET e == ensureIgnitionSecret(c, o) IN
         Reconciled(c, e.secret, e.annotations, c.img, TRUE, FALSE,
                    <<<<"Get image", "found">>>> \o e.calls, e.requeue, e.err)
    ELSE Reconciled(c, c.secret, c.annotations, c.img, FALSE, TRUE,
                    <<<<"Get image", "found">>>>, FALSE, "")

\* Reconcile.  The upstream reconciler is not of this program: it succeeds
\* or fails, and when it succeeds on an image that is being deleted the image
\* is gone afterwards.
Reconcile(c, o) ==
    IF ~o.getImage
    THEN Reconciled(c, c.secret, c.annotations, c.img, FALSE, FALSE,
                    <<<<"Get image", "error">>>>, FALSE, "get image")
    ELSE IF c.img = "missing"
    THEN Reconciled(c, c.secret, c.annotations, c.img, FALSE, FALSE,
                    <<<<"Get image", "not found">>>>, FALSE, "")
    ELSE IF ~c.deleting /\ Lookup(c.annotations, ignitionSecretAnnotationName) = ""
    THEN LET e == ensureIgnitionSecret(c, o) IN
         Reconciled(c, e.secret, e.annotations, c.img, TRUE, FALSE,
                    <<<<"Get image", "found">>>> \o e.calls, e.requeue, e.err)
    ELSE IF o.upstream
    THEN Reconciled(c, c.secret, c.annotations,
                    IF c.deleting THEN "missing" ELSE c.img, FALSE, TRUE,
                    <<<<"Get image", "found">>, <<"upstream", "ok">>>>, FALSE, "")
    ELSE Reconciled(c, c.secret, c.annotations, c.img, FALSE, TRUE,
                    <<<<"Get image", "found">>, <<"upstream", "error">>>>,
                    FALSE, "upstream")

\* Passes are told apart by a bit that each of them flips.
Tick == IF last.op = "reconcile" THEN last.tick ELSE 0

\* A pass that is not run again after it returned an error.
ReconcilePass_DropsFailedPass(o) ==
    /\ cluster.queued
    /\ LET r == Reconcile(cluster, o) IN
       /\ cluster.failures + Errors(r.calls) <= MaxFailures
       /\ cluster' = [r.cluster EXCEPT !.failures = @ + Errors(r.calls),
                                       !.queued = r.requeue /\ r.err = ""]
       /\ last' = [op |-> "reconcile", read |-> cluster, ensured |-> r.ensured,
                   upstream |-> r.upstream, calls |-> r.calls,
                   requeue |-> r.requeue, err |-> r.err, tick |-> 1 - Tick]
    /\ UNCHANGED <<handler, keys, images, size, checkSum, disk, minted, issued,
                   revoked, dir, mu, pc, readers, built, known, proc>>

\* The controller takes the image off its work queue and runs a pass of
\* Reconcile; the image is queued again when the pass asks for a requeue or
\* returns an error.  What the pass did is kept with the objects as they were
\* when it began.
ReconcilePass(o) ==
    /\ cluster.queued
    /\ LET r == Reconcile(cluster, o) IN
       /\ cluster.failures + Errors(r.calls) <= MaxFailures
       /\ cluster' = [r.cluster EXCEPT !.failures = @ + Errors(r.calls),
                                       !.queued = r.requeue \/ r.err # ""]
       /\ last' = [op |-> "reconcile", read |-> cluster, ensured |-> r.ensured,
                   upstream |-> r.upstream, calls |-> r.calls,
                   requeue |-> r.requeue, err |-> r.err, tick |-> 1 - Tick]
    /\ UNCHANGED <<handler, keys, images, size, checkSum, disk, minted, issued,
                   revoked, dir, mu, pc, readers, built, known, proc>>

\* A user deletes the image: it gets its deletion timestamp, and the change
\* queues it.
DeleteImage ==
    /\ cluster.img = "present" /\ ~cluster.deleting
    /\ cluster' = [cluster EXCEPT !.deleting = TRUE, !.queued = TRUE]
    /\ UNCHANGED <<handler, keys, images, size, checkSum, disk, minted, last,
                   issued, revoked, dir, mu, pc, readers, built, known, proc>>

\* An image, or none, in a namespace with or without the ignition secret; the
\* image is on the work queue.
InitReconcile ==
    /\ handler = "content"
    /\ dir = HostOnly
    /\ keys = <<>>
    /\ images = <<>>
    /\ size = [f \in HandlerFiles(handler) |-> 0]
    /\ checkSum = [f \in HandlerFiles(handler) |-> ""]
    /\ disk = [f \in HandlerFiles(handler) |-> OnDisk(f)]
    /\ minted = 0
    /\ last = NoCall
    /\ issued = [k \in Keys |-> NoURL]
    /\ revoked = NoRevoked
    /\ mu = NoProc
    /\ pc = [p \in Procs |-> Idle]
    /\ readers = 0
    /\ built = NoBuild
    /\ known = <<>>
    /\ proc = Started
    /\ cluster \in [img : {"missing", "present"}, deleting : BOOLEAN,
                     annotations : Annotations, secret : BOOLEAN,
                     builder : Builders, failures : {0}, queued : {TRUE}]
    /\ cluster.img = "missing" => ~cluster.deleting /\ cluster.annotations = <<>>

NextReconcile ==
    \/ \E o \in Outcomes : ReconcilePass(o)
    \/ DeleteImage

SpecReconcile == InitReconcile /\ [][NextReconcile]_vars

\* Queued passes are eventually run.
SpecReconcileFair == SpecReconcile /\ WF_vars(\E o \in Outcomes : ReconcilePass(o))

-----------------------------------------------------------------------------
(* The start of the process (main): the set-up, the image handler, the
   goroutine of the HTTP listener, the controller manager.  os.Exit ends the
   process, whichever goroutine calls it. *)

\* The process has not exited.
Alive == proc.exit = -1

\* os.Exit(status), because of cause.
Exit(status, cause) == proc' = [proc EXCEPT !.exit = status, !.cause = cause]

\* A main that goes on to the listener without building the image handler.
MainSetup_SkipsHandler(ok) ==
    /\ Alive /\ proc.main = "setup"
    /\ IF ok THEN proc' = [proc EXCEPT !.main = "go"] ELSE Exit(1, "setup")
    /\ UNCHANGED <<handler, keys, images, size, checkSum, disk, minted, last,
                   issued, revoked, dir, mu, pc, readers, built, known, cluster>>

\* env.New, url.Parse of the publish address, the pull secret read from its
\* file: any of them failing ends the process.
MainSetup(ok) ==
    /\ Alive /\ proc.main = "setup"
    /\ IF ok THEN proc' = [proc EXCEPT !.main = "handler"] ELSE Exit(1, "setup")
    /\ UNCHANGED <<handler, keys, images, size, checkSum, disk, minted, last,
                   issued, revoked, dir, mu, pc, readers, built, known, cluster>>

\* imageServer := imagehandler.NewImageHandler(...); http.Handle("/", ...).
MainNewImageHandler ==
    /\ Alive /\ proc.main = "handler"
    /\ handler' = "content"
    /\ size' = [f \in HandlerFiles("content") |-> 0]
    /\ checkSum' = [f \in HandlerFiles("content") |-> ""]
    /\ proc' = [proc EXCEPT !.main = "go"]
    /\ UNCHANGED <<keys, images, disk, minted, last, issued, revoked, dir, mu,
                   pc, readers, built, known, cluster>>

\* go func() { ... }(): the goroutine of the listener is started.
MainGo ==
    /\ Alive /\ proc.main = "go"
    /\ proc' = [proc EXCEPT !.main = "controller", !.http = "starting"]
    /\ UNCHANGED <<handler, keys, images, size, checkSum, disk, minted, last,
                   issued, revoked, dir, mu, pc, readers, built, known, cluster>>

\* server.ListenAndServe(): it listens, or returns an error at once, and
\* then os.Exit(1).
HTTPListen(ok) ==
    /\ Alive /\ proc.http = "starting"
    /\ IF ok THEN proc' = [proc EXCEPT !.http = "listening"] ELSE Exit(1, "listener")
    /\ UNCHANGED <<handler, keys, images, size, checkSum, disk, minted, last,
                   issued, revoked, dir, mu, pc, readers, built, known, cluster>>

\* ListenAndServe returns an error after it has listened: os.Exit(1).
HTTPFail ==
    /\ Alive /\ proc.http = "listening"
    /\ Exit(1, "listener")
    /\ UNCHANGED <<handler, keys, images, size, checkSum, disk, minted, last,
                   issued, revoked, dir, mu, pc, readers, built, known, cluster>>

\* runController up to mgr.Start: the manager, the reconciler, the checks.
\* An error is returned to main: os.Exit(1).
RunController(ok) ==
    /\ Alive /\ proc.main = "controller"
    /\ IF ok THEN proc' = [proc EXCEPT !.main = "manager"] ELSE Exit(1, "controller")
    /\ UNCHANGED <<handler, keys, images, size, checkSum, disk, minted, last,
                   issued, revoked, dir, mu, pc, readers, built, known, cluster>>

\* mgr.Start returns: an error, and os.Exit(1); or nil after a signal, and
\* main returns.
ManagerStops(ok) ==
    /\ Alive /\ proc.main = "manager"
    /\ IF ok THEN Exit(0, "signal") ELSE Exit(1, "controller")
    /\ UNCHANGED <<handler, keys, images, size, checkSum, disk, minted, last,
                   issued, revoked, dir, mu, pc, readers, built, known, cluster>>

\* The images the reconciler of the running manager builds.
ImageDatasBuilt == {data \in ImageDatas : ~data.override /\ ~data.infraEnv}

\* The listener serves a request.
HTTPServe(path) == Alive /\ proc.http = "listening" /\ Get(path)

\* The reconciler of the running manager builds an image.
ManagerBuild(data) ==
    /\ Alive /\ proc.main = "manager"
    /\ \E out \in OtherOutcomes : BuildImage(data, "", TRUE, out)

\* The process is started; the base files are in the shared directory.
InitMain ==
    /\ handler = "unbuilt"
    /\ dir = HostOnly
    /\ keys = <<>>
    /\ images = <<>>
    /\ size = <<>>
    /\ checkSum = <<>>
    /\ disk = [f \in HandlerFiles("content") |-> OnDisk(f)]
    /\ minted = 0
    /\ last = NoCall
    /\ issued = [k \in Keys |-> NoURL]
    /\ revoked = NoRevoked
    /\ mu = NoProc
    /\ pc = [p \in Procs |-> Idle]
    /\ readers = 0
    /\ built = NoBuild
    /\ known = <<>>
    /\ cluster = NoCluster
    /\ proc = [main |-> "setup", http |-> "unstarted", exit |-> -1, cause |-> ""]

NextMain ==
    \/ \E ok \in BOOLEAN : MainSetup(ok)
    \/ MainNewImageHandler
    \/ MainGo
    \/ \E ok \in BOOLEAN : HTTPListen(ok)
    \/ HTTPFail
    \/ \E ok \in BOOLEAN : RunController(ok)
    \/ \E ok \in BOOLEAN : ManagerStops(ok)
    \/ \E path \in PathsAsked : HTTPServe(path)
    \/ \E data \in ImageDatasBuilt : ManagerBuild(data)

SpecMain == InitMain /\ [][NextMain]_vars

-----------------------------------------------------------------------------
(* The systemd unit of the ironic agent (pkg/ignition). *)

ironicAgentPodmanFlags == "--tls-verify=false"

\* fmt.Sprintf(unitTemplate, image, flags, image)
unitTemplate(image, flags, runImage) ==
    "[Unit]\nDescription=Ironic Agent\nAfter=network-online.target\n"
    \o "Wants=network-online.target\n[Service]\nTimeoutStartSec=0\n"
    \o "ExecStartPre=/bin/podman pull " \o image \o " " \o flags \o "\n"
    \o "ExecStart=/bin/podman run --privileged --network host"
    \o " --mount type=bind,src=/etc/ironic-python-agent.conf,dst=/etc/ironic-python-agent/ignition.conf"
    \o " --mount type=bind,src=/dev,dst=/dev --mount type=bind,src=/sys,dst=/sys"
    \o " --mount type=bind,src=/,dst=/mnt/coreos --name ironic-agent " \o runImage
    \o "\n[Install]\nWantedBy=multi-user.target\n"

\* An ironicAgentService that passes the auth file whatever the pull secret.
ironicAgentService_AlwaysAuthfile(b) ==
    LET flags == ironicAgentPodmanFlags \o " --authfile=/etc/authfile.json"
    IN [Name |-> "ironic-agent.service", Enabled |-> TRUE,
        Contents |-> unitTemplate(b.ironicAgentImage, flags, b.ironicAgentImage)]

\* ignitionBuilder.ironicAgentService.
ironicAgentService(b) ==
    LET flags == IF b.ironicAgentPullSecret # ""
                 THEN ironicAgentPodmanFlags \o " --authfile=/etc/authfile.json"
                 ELSE ironicAgentPodmanFlags
    IN [Name |-> "ironic-agent.service", Enabled |-> TRUE,
        Contents |-> unitTemplate(b.ironicAgentImage, flags, b.ironicAgentImage)]

\* The pull secrets tried have at most MaxSecretLen characters.
MaxSecretLen == 3

\* The strings of at most n characters of an alphabet.
RECURSIVE Strings(_, _)
Strings(alphabet, n) ==
    IF n = 0 THEN {""}
    ELSE LET shorter == Strings(alphabet, n - 1) IN
         shorter \cup {s \o c : s \in shorter, c \in alphabet}

\* The builders tried: the image of the test and two others, the pull secrets
\* of letters, blanks and line ends.
BuildersTried ==
    [ironicAgentImage : {"http://example.com/foo:latest",
                         "quay.io/openshift-release-dev/ironic-ipa-image", ""},
     ironicAgentPullSecret : Strings({"a", " ", "\n"}, MaxSecretLen)]

\* The unit is generated for a builder.
GenerateUnit(b) ==
    /\ last' = [op |-> "unit", b |-> b, unit |-> ironicAgentService(b)]
    /\ UNCHANGED <<handler, keys, images, size, checkSum, disk, minted, issued,
                   revoked, dir, mu, pc, readers, built, known, cluster, proc>>

InitUnit == NewImageHandler("content", HostOnly)

NextUnit == \E b \in BuildersTried : GenerateUnit(b)

SpecUnit == InitUnit /\ [][NextUnit]_vars

-----------------------------------------------------------------------------
(* C1 *)

\* C1: in the UUID-naming handler, a successful ServeImage(k) with static=false
\* returns the URL that the previous successful ServeImage(k) with static=false
\* returned, when no RemoveImage(k) came in between, whatever the payloads,
\* formats and calls on other keys (or static calls on k) in between.
C1_SameKeySameURL ==
    [][ (handler = "uuid" /\ ServedNext /\ ~last'.static
            /\ issued[last'.key] # NoURL)
        => last'.url = issued[last'.key] ]_vars

\* A key served again with static=false after another key was registered in
\* between: its name was drawn first, the other key's second.
C1_Witness ==
    /\ ServedUUID /\ ~last.static
    /\ \E other \in DOMAIN images \ {last.key} :
          /\ last.key \in DOMAIN images
          /\ images[last.key].name = UUIDs[1]
          /\ images[other].name = UUIDs[2]
    /\ last.url = URLOf(UUIDs[1])

-----------------------------------------------------------------------------
(* C2 *)

\* C2: in the UUID-naming handler, after every successful ServeImage the name
\* in the path of the returned URL resolves (imageFileByName) to an image
\* file, the one registered under the key served, for any mix of static and
\* non-static calls.
C2_ServedNameResolves ==
    ServedUUID =>
        /\ imageFileByName(last.name) # nil
        /\ imageFileByName(last.name) = images[last.key]

-----------------------------------------------------------------------------
(* C3 *)

\* C3: in the content-addressed handler, after every successful ServeImage the
\* path of the returned URL resolves (imageFileByName) to an image file whose
\* payload is the one passed to the call, also when a registered key is
\* served again with another payload.
C3_ServedPayloadResolves ==
    ServedCA =>
        /\ imageFileByNameCA(last.name) # nil
        /\ imageFileByNameCA(last.name).ignitionContent = last.payload

-----------------------------------------------------------------------------
(* C4 *)

\* C4: in the UUID-naming handler with static=false, the first successful
\* ServeImage(k) after RemoveImage(k) returns a URL that differs from the one
\* ServeImage(k) returned before the removal.
C4_NewURLAfterRemoval ==
    (handler = "uuid" /\ revoked.again # NoURL) => revoked.again # revoked.url

\* A key was served, removed and served again, all with static=false.
C4_Witness ==
    /\ ServedUUID /\ ~last.static
    /\ revoked.key = last.key
    /\ revoked.url # NoURL
    /\ revoked.again = last.url

-----------------------------------------------------------------------------
(* C5 *)

-----------------------------------------------------------------------------
(* C6 *)

\* C6: in the UUID-naming handler with static=false, serving a registered key
\* again with another payload returns the URL of its registered name (the URL
\* issued before) and leaves the registered image file, with the payload of
\* the first registration, and both maps as they were.
C6_ReserveKeepsFirstPayload ==
    [][ (handler = "uuid" /\ ServedNext /\ ~last'.static
            /\ last'.key \in DOMAIN images
            /\ images[last'.key].ignitionContent # last'.payload)
        => /\ last'.url = URLOf(images[last'.key].name)
           /\ issued[last'.key] # NoURL => last'.url = issued[last'.key]
           /\ images' = images
           /\ keys' = keys
           /\ images'[last'.key].ignitionContent # last'.payload ]_vars

\* A registered key was just served with a payload that is not the registered one.
C6_Witness ==
    /\ ServedUUID /\ ~last.static
    /\ last.key \in DOMAIN images
    /\ images[last.key].ignitionContent # last.payload
    /\ last.url = URLOf(images[last.key].name)

-----------------------------------------------------------------------------
(* C7 *)

\* The URL of a payload against a base in the content-addressed handler.
ContentURL(initramfs, payload) ==
    baseURL \o "/" \o disk[getBaseImageCA(initramfs)].sum
            \o "/" \o Sha256Hex(payload)

\* C7: in the content-addressed handler with static=false, the URL returned is
\* the base URL followed by /<checksum of the selected base>/<hex SHA-256 of
\* the payload>, for every key and every history; two consecutive calls
\* against the same base return the same URL exactly when their payloads are
\* the same.
C7_URLIsContentAddress ==
    [][ (handler = "content" /\ ServedNext /\ ~last'.static)
        => /\ last'.url = ContentURL(last'.initramfs, last'.payload)
           /\ (Served /\ ~last.static /\ last.initramfs = last'.initramfs)
                => ((last.url = last'.url) <=> (last.payload = last'.payload)) ]_vars

\* Two keys served with the same payload against the same base: the URL of
\* the call is the content address, which both images have as their name.
C7_Witness ==
    /\ ServedCA /\ ~last.static
    /\ last.key \in DOMAIN images
    /\ images[last.key].ignitionContent = last.payload
    /\ last.url = ContentURL(last.initramfs, last.payload)
    /\ \E other \in DOMAIN images \ {last.key} :
          images[other].name = images[last.key].name

-----------------------------------------------------------------------------
(* C8 *)

\* C8: RemoveImage(k) of a registered key deletes images[k] and the entry of
\* keys for the name of that image and nothing else; of a key that is not
\* registered it changes neither map.  After it k is not registered, so a
\* second RemoveImage(k) changes nothing.
C8_RemoveDeletesBothEntries ==
    [][ last'.op = "remove"
        => /\ IF last'.key \in DOMAIN images
              THEN /\ images' = [k \in DOMAIN images \ {last'.key} |-> images[k]]
                   /\ keys' = [n \in DOMAIN keys \ {images[last'.key].name} |-> keys[n]]
              ELSE /\ images' = images
                   /\ keys' = keys
           /\ last'.key \notin DOMAIN images' ]_vars

\* A key that had a URL was just removed while another image stays registered.
C8_Witness ==
    /\ last.op = "remove"
    /\ revoked.key = last.key
    /\ revoked.again = NoURL
    /\ last.key \notin DOMAIN images
    /\ DOMAIN images # {}
    /\ DOMAIN keys # {}

-----------------------------------------------------------------------------
(* C9 *)

\* C9: after RemoveImage(k) the name that was registered for k does not
\* resolve (imageFileByName returns nil), and no name resolves to k; a name
\* that does not resolve starts to resolve only by a successful ServeImage
\* that serves that very name.
C9_RemovedNameStaysUnresolved ==
    [][ /\ (last'.op = "remove" /\ last'.key \in DOMAIN images)
            => /\ images[last'.key].name \notin DOMAIN keys'
               /\ \A n \in DOMAIN keys' : keys'[n] # last'.key
        /\ \A n \in DOMAIN keys' \ DOMAIN keys :
               ServedNext /\ last'.name = n ]_vars

\* The URL a removed key had is the URL of no registered name.
C9_Witness ==
    /\ last.op = "remove"
    /\ revoked.key = last.key
    /\ revoked.url # NoURL
    /\ \A n \in DOMAIN keys : URLOf(n) # revoked.url
    /\ \A k \in DOMAIN images : URLOf(images[k].name) # revoked.url

-----------------------------------------------------------------------------
(* C10 *)

\* C10: a ServeImage that returns an error (no base file, Size or CheckSum
\* failed, uuid.NewRandom failed, url.Parse failed) leaves keys and images as
\* they were, in both handlers.
C10_FailedServeRegistersNothing ==
    [][ (last'.op = "serve" /\ last'.err # "")
        => /\ keys' = keys
           /\ images' = images ]_vars

\* A ServeImage just failed on url.Parse while an image is registered.
C10_Witness ==
    /\ last.op = "serve"
    /\ last.err = "url"
    /\ last.url = NoURL
    /\ DOMAIN images # {}
    /\ last.key \notin DOMAIN images

-----------------------------------------------------------------------------
(* C11 *)

\* C11: in the UUID-naming handler, a ServeImage for an architecture and format
\* of which the shared directory held no file returns InvalidBaseImageError
\* and the empty URL and registers nothing, for every key and both values of
\* static.
C11_NoBaseFileIsInvalidBase ==
    [][ (handler = "uuid" /\ last'.op = "serve" /\ last' # last
            /\ ~HasBaseFile(last'.arch, last'.initramfs))
        => /\ last'.err = "InvalidBaseImageError"
           /\ last'.cause = "not found"
           /\ last'.url = NoURL
           /\ keys' = keys /\ images' = images ]_vars

\* A static ServeImage for the initramfs of an architecture that has an ISO
\* only just failed, while the key is registered with the host initramfs.
C11_Witness ==
    /\ handler = "uuid"
    /\ last.op = "serve" /\ last.static /\ last.initramfs
    /\ ~HasBaseFile(last.arch, TRUE) /\ HasBaseFile(last.arch, FALSE)
    /\ last.err = "InvalidBaseImageError" /\ last.url = NoURL
    /\ \E k \in DOMAIN images : images[k].arch = "host" /\ images[k].initramfs

-----------------------------------------------------------------------------
(* C12 *)

\* os.Stat of a base file would fail and no size is memoized.
StatFails(f) == size[f] = 0 /\ ~disk[f].exists

\* Opening or reading a base file would fail and no checksum is memoized.
HashFails(f) == checkSum[f] = "" /\ ~(disk[f].exists /\ disk[f].readable)

\* C12: a ServeImage whose selected base file cannot be stat'ed, or, in the
\* content-addressed handler with static=false, cannot be hashed, returns
\* InvalidBaseImageError with that failure as its cause and the empty URL;
\* nothing is registered and no size or checksum is memoized in its place.
C12_BaseFailureIsInvalidBase ==
    [][ (last'.op = "serve" /\ last' # last) =>
        LET base == IF handler = "content"
                    THEN [found |-> TRUE, file |-> getBaseImageCA(last'.initramfs)]
                    ELSE getBaseImage(last'.arch, last'.initramfs)
            failed(cause) ==
                /\ last'.err = "InvalidBaseImageError"
                /\ last'.cause = cause
                /\ last'.url = NoURL
                /\ keys' = keys /\ images' = images
                /\ size'[base.file] = IF cause = "stat" THEN 0 ELSE disk[base.file].size
                /\ checkSum'[base.file] = ""
        IN
        /\ (base.found /\ StatFails(base.file)) => failed("stat")
        /\ (handler = "content" /\ ~last'.static
               /\ ~StatFails(base.file) /\ HashFails(base.file)) => failed("open") ]_vars

\* A ServeImage just failed on the size of its base while an image of the
\* other format is registered.
C12_Witness ==
    /\ last.op = "serve"
    /\ last.err = "InvalidBaseImageError" /\ last.cause = "stat"
    /\ last.url = NoURL
    /\ \E k \in DOMAIN images : images[k].initramfs # last.initramfs
    /\ \A f \in DOMAIN size : ~disk[f].exists => size[f] = 0

-----------------------------------------------------------------------------
(* C13 *)

-----------------------------------------------------------------------------
(* C14 *)

\* The shared directory holds no file of the architecture, in either format.
ArchAbsent(arch) == ~HasBaseFile(arch, FALSE) /\ ~HasBaseFile(arch, TRUE)

\* The shared directory holds the architecture in the other format only.
FormatAbsent(arch, initramfs) ==
    ~HasBaseFile(arch, initramfs) /\ HasBaseFile(arch, ~initramfs)

\* C14: what a caller gets for an architecture that is absent from the index
\* differs from what it gets for a format that is missing within a present
\* architecture: two consecutive ServeImage calls for the same format, the
\* first for an absent architecture and the second for an architecture that
\* has the other format only, return different errors, and getBaseImage
\* returns different results for the two.
C14_MissingArchDistinguishable ==
    [][ (handler = "uuid" /\ last.op = "serve" /\ last'.op = "serve"
            /\ last.initramfs = last'.initramfs
            /\ ArchAbsent(last.arch)
            /\ FormatAbsent(last'.arch, last'.initramfs))
        => \/ <<last.err, last.cause>> # <<last'.err, last'.cause>>
           \/ getBaseImage(last.arch, last.initramfs)
                 # getBaseImage(last'.arch, last'.initramfs) ]_vars

-----------------------------------------------------------------------------
(* C15 *)

\* C15: once a call of Size or CheckSum on a base file has succeeded, every
\* later call of that method on that file returns the same value and does
\* not go to storage, whatever the size of the file, 0 bytes included.
C15_ReadOnceThenMemoized ==
    [][ (last'.op \in {"Size", "CheckSum"} /\ last' # last
            /\ <<last'.op, last'.file>> \in DOMAIN known)
        => /\ last'.ok
           /\ last'.val = known[<<last'.op, last'.file>>]
           /\ ~last'.touched ]_vars

-----------------------------------------------------------------------------
(* C16 *)

\* The statements that stat or hash a base file or open a derivation reader.
InFileIO(p) == pc[p].at \in {"stat", "hash", "reader"}

\* The statements between f.mu.Lock() and the deferred f.mu.Unlock().
InCriticalSection(p) == pc[p].at \in {"name", "register", "delete", "read", "return"}

-----------------------------------------------------------------------------
(* C17 *)

\* C17: no step of ServeImage opens a derivation reader (InsertIgnition is not
\* invoked): the count of readers opened changes only by the opening of a
\* served file, after its name was looked up.
C17_ServeOpensNoReader ==
    [][ /\ \A p \in Procs :
              (pc[p].op = "serve" /\ pc'[p] # pc[p]) => readers' = readers
        /\ readers' # readers =>
              \E p \in Procs : /\ pc[p].op = "open" /\ pc[p].at = "reader"
                                /\ pc'[p] = Idle ]_vars

\* ServeImage has just returned the URL of a key it registered, and no
\* reader was opened so far.
C17_Witness ==
    /\ last.op = "serve" /\ last.err = "" /\ last.url # NoURL
    /\ last.key \in DOMAIN images
    /\ images[last.key].name = last.name
    /\ readers = 0

-----------------------------------------------------------------------------
(* C18 *)

\* C18: no step of imageFileByName changes keys or images or opens a
\* derivation reader, whether the name is registered or not.
C18_LookupChangesNothing ==
    [][ \A p \in Procs :
          (pc[p].op \in {"lookup", "open"} /\ pc[p].at \in {"lock", "read", "return"}
             /\ pc'[p] # pc[p])
          => /\ keys' = keys
             /\ images' = images
             /\ readers' = readers ]_vars

\* imageFileByName has just returned the image of a registered name, which
\* is still registered, and no reader was opened.
C18_Witness ==
    /\ last.op = "lookup" /\ last.found
    /\ last.name \in DOMAIN keys
    /\ keys[last.name] \in DOMAIN images
    /\ readers = 0

-----------------------------------------------------------------------------
(* C19 *)

\* The base file a handler selects for an architecture and a format.
SelectedBase(arch, initramfs) ==
    IF handler = "content"
    THEN [found |-> TRUE, file |-> getBaseImageCA(initramfs)]
    ELSE getBaseImage(arch, initramfs)

\* C19: an image that a step registers has the size of the base file that
\* the registering ServeImage call selected for its architecture and format,
\* and a registered image keeps its size for as long as it is registered.
C19_RegisteredSizeIsBaseSize ==
    [][ \A key \in DOMAIN images' :
          IF key \in DOMAIN images
          THEN images'[key].size = images[key].size
          ELSE /\ last'.op = "serve" /\ last'.key = key
               /\ SelectedBase(last'.arch, last'.initramfs).found
               /\ images'[key].size =
                    disk[SelectedBase(last'.arch, last'.initramfs).file].size ]_vars

\* Two keys are registered, one for the ISO and one for the initramfs, and
\* each has the size of its own base file.
C19_Witness ==
    \E k1, k2 \in DOMAIN images :
        /\ ~images[k1].initramfs /\ images[k2].initramfs
        /\ images[k1].size = disk[SelectedBase(images[k1].arch, FALSE).file].size
        /\ images[k2].size = disk[SelectedBase(images[k2].arch, TRUE).file].size
        /\ images[k1].size # images[k2].size

-----------------------------------------------------------------------------
(* C20 *)

\* C20: when BuildImage has called ServeImage, it returns BuildInvalidError
\* (and no URL) if ServeImage failed with an InvalidBaseImageError, the error
\* of ServeImage as it is if it failed with any other error, and the URL of
\* ServeImage with a nil error if it succeeded.
C20_BuildImageMapsErrors ==
    (built.op = "build" /\ built.served) =>
        /\ last.op = "serve" /\ last.key = built.key /\ ~last.static
        /\ IF last.err = "InvalidBaseImageError"
           THEN /\ built.err = "BuildInvalidError"
                /\ built.wraps = "InvalidBaseImageError"
                /\ built.url = ""
           ELSE /\ built.err = last.err
                /\ built.url = last.url
                /\ built.wraps = ""

\* BuildImage has just turned an InvalidBaseImageError of the
\* content-addressed handler into a BuildInvalidError.
C20_Witness ==
    /\ handler = "content"
    /\ built.op = "build" /\ built.served
    /\ last.op = "serve" /\ last.err = "InvalidBaseImageError"
    /\ built.err = "BuildInvalidError" /\ built.url = ""

-----------------------------------------------------------------------------
(* C21 *)

\* The files an index holds.
Indexed(index) == {index[a] : a \in DOMAIN index}

\* C21: whatever else the shared directory holds, every entry that parses as
\* a base image is indexed under its architecture and its format, and an
\* entry that does not parse is in neither index.
C21_UnparsedEntriesAreSkipped ==
    \A n \in dir :
        LET img == parseIronicImage(n) IN
        IF img.ok
        THEN /\ img.iso => /\ img.arch \in DOMAIN isoFiles
                           /\ isoFiles[img.arch] = Join(n)
             /\ img.initramfs => /\ img.arch \in DOMAIN initramfsFiles
                                 /\ initramfsFiles[img.arch] = Join(n)
        ELSE Join(n) \notin Indexed(isoFiles) \cup Indexed(initramfsFiles)

\* The directory holds an entry that does not parse, and ServeImage has
\* served the ISO of an architecture found next to it.
C21_Witness ==
    /\ \E n \in dir : ~parseIronicImage(n).ok
    /\ last.op = "serve" /\ last.err = "" /\ last.arch = "aarch64"
    /\ ~last.initramfs
    /\ isoFiles["aarch64"] = Join("ironic-python-agent-aarch64.iso")

-----------------------------------------------------------------------------
(* C22 *)

\* The default base name of the format an extension stands for.
DefaultBase(envInputs, ext) ==
    IF ext = ".iso" THEN Stem(envInputs.DeployISO) ELSE Stem(envInputs.DeployInitrd)

-----------------------------------------------------------------------------
(* C23 *)

\* The image registered under the name of the path last requested.
Requested == images[keys[NameOfPath(last.path)]]

\* The base file of that image can be opened.
BaseOpens == disk[BaseOf(Requested)].exists /\ disk[BaseOf(Requested)].readable

-----------------------------------------------------------------------------
(* C24 *)

\* The goroutine takes the step that returns from a ServeImage without error.
ReturnsOK(p) == At(p, "serve", "return") /\ pc[p].err = "" /\ pc'[p] = Idle

\* C24: of the ServeImage calls that two goroutines make for one key with
\* static = false, however their statements interleave, every one that
\* returns without error returns the URL the one before it returned, and
\* when it returns exactly one image and exactly one name are registered,
\* both for that key.
C24_ConcurrentServeSameURL ==
    [][ \A p \in Procs :
          ReturnsOK(p) =>
              /\ (last.op = "serve" /\ last.err = "") => pc[p].url = last.url
              /\ DOMAIN images' = {pc[p].key}
              /\ Cardinality(DOMAIN keys') = 1
              /\ \A n \in DOMAIN keys' : keys'[n] = pc[p].key
              /\ pc[p].url = URLOf(images'[pc[p].key].name) ]_vars

\* One goroutine has returned a URL; the other, which asked for the other
\* format, is about to return the same URL, and one UUID was drawn.
C24_Witness ==
    /\ last.op = "serve" /\ last.err = "" /\ last.url # NoURL
    /\ \E p \in Procs :
          /\ At(p, "serve", "return") /\ pc[p].err = ""
          /\ pc[p].initramfs # last.initramfs
          /\ pc[p].url = last.url
    /\ minted = 1
    /\ Cardinality(DOMAIN keys) = 1

-----------------------------------------------------------------------------
(* C25 *)

\* C25: in the UUID-naming handler, whenever the mutex is free, keys and
\* images are inverse to each other: the name of every registered image maps
\* back to its key, and every name maps to a registered image of that name.
C25_MapsMutuallyInverse ==
    (handler = "uuid" /\ mu = NoProc) =>
        /\ \A k \in DOMAIN images :
              /\ images[k].name \in DOMAIN keys
              /\ keys[images[k].name] = k
        /\ \A n \in DOMAIN keys :
              /\ keys[n] \in DOMAIN images
              /\ images[keys[n]].name = n

-----------------------------------------------------------------------------
(* C26 *)

\* imageFileByName in the state a step leads to.
imageFileByNameAfter(name) ==
    IF name \in DOMAIN keys'
    THEN IF keys'[name] \in DOMAIN images' THEN images'[keys'[name]] ELSE nil
    ELSE nil

\* C26: in the content-addressed handler, RemoveImage of a key leaves
\* imageFileByName as it was for the name of every other key that is
\* registered, also when both keys were served with the same payload and base.
C26_RemoveLeavesOtherKeys ==
    [][ (handler = "content" /\ last'.op = "remove") =>
          \A k2 \in DOMAIN images \ {last'.key} :
              imageFileByNameAfter(images[k2].name) = imageFileByNameCA(images[k2].name) ]_vars

-----------------------------------------------------------------------------
(* C27 *)

\* C27: in both handlers every name in keys maps to a key that is in images,
\* so that imageFileByName returns an image for every name in keys.
C27_NamesMapToRegisteredKeys ==
    \A n \in DOMAIN keys :
        /\ keys[n] \in DOMAIN images
        /\ imageFileByName(n) # nil
        /\ imageFileByNameCA(n) # nil

\* A key has just been removed while another one stays registered, and the
\* name that is left resolves.
C27_Witness ==
    /\ last.op = "remove"
    /\ last.key \notin DOMAIN images
    /\ \E n \in DOMAIN keys : keys[n] # last.key /\ imageFileByName(n) = images[keys[n]]

-----------------------------------------------------------------------------
(* C28 *)

\* C28: no step changes the image file of a key that is registered before
\* and after it: not a ServeImage of that key with another payload,
\* architecture, format or static flag, and not a call on another key.
C28_RegisteredImageIsFrozen ==
    [][ \A key \in DOMAIN images \cap DOMAIN images' :
          images'[key] = images[key] ]_vars

\* ServeImage has served a registered key again with static = true, another
\* payload and the other format, and the image of the key is not the one of
\* this call.
C28_Witness ==
    /\ last.op = "serve" /\ last.err = "" /\ last.static
    /\ last.key \in DOMAIN images
    /\ images[last.key].ignitionContent # last.payload
    /\ images[last.key].initramfs # last.initramfs
    /\ images[last.key].name # last.name

-----------------------------------------------------------------------------
(* C29 *)

\* C29: getBaseImage answers for the empty architecture what it answers for
\* "host", for both formats; a ServeImage with either of the two fails with
\* "not found" exactly when the host has no file of the format and with a
\* stat error exactly when that file is not on storage, and an image it
\* registers has the size of the host's file.
C29_EmptyArchIsHost ==
    /\ \A initramfs \in BOOLEAN :
          getBaseImage("", initramfs) = getBaseImage("host", initramfs)
    /\ (last.op = "serve" /\ last.arch \in {"", "host"}) =>
          LET base == getBaseImage("host", last.initramfs) IN
          /\ (last.cause = "not found") <=> ~base.found
          /\ base.found => ((last.cause = "stat") <=> ~disk[base.file].exists)
          /\ (/\ last.err = ""
              /\ last.key \in DOMAIN images
              /\ images[last.key].arch \in {"", "host"}
              /\ images[last.key].initramfs = last.initramfs)
               => images[last.key].size = disk[base.file].size

\* ServeImage with the empty architecture has registered an image of the
\* size of the host's initramfs, in a directory with files of other
\* architectures.
C29_Witness ==
    /\ dir = Mixed
    /\ last.op = "serve" /\ last.err = "" /\ last.arch = "" /\ last.initramfs
    /\ last.key \in DOMAIN images
    /\ images[last.key].arch = ""
    /\ images[last.key].size = disk[initramfsFiles["host"]].size

-----------------------------------------------------------------------------
(* C30 *)

\* Every call of Size that returned a value returned the size of the file.
SizeCallsAgree == (last.op = "Size" /\ last.ok) => last.val = disk[last.file].size

\* Every call of CheckSum that returned a value returned the file's checksum.
CheckSumCallsAgree ==
    (last.op = "CheckSum" /\ last.ok) => last.val = disk[last.file].sum

\* With no call under way, what is memoized is the value of the file.
MemoIsActual ==
    (\A p \in Procs : pc[p] = Idle) =>
        \A f \in DOMAIN disk :
            /\ size[f] \in {0, disk[f].size}
            /\ checkSum[f] \in {"", disk[f].sum}

\* C30: when goroutines call Size or CheckSum on a base file at the same
\* time, however their statements interleave, every call that returns a
\* value returns the actual size (checksum) of the file, and the value left
\* memoized is that value.
C30_ConcurrentFirstAccessAgrees ==
    SizeCallsAgree /\ CheckSumCallsAgree /\ MemoIsActual

-----------------------------------------------------------------------------
(* C31 *)

\* Whether storage lets a method of a base file succeed: os.Stat needs the
\* file to exist, os.Open and io.Copy need it to be readable too.
StorageServes(method, f) ==
    IF method = "Size" THEN disk[f].exists ELSE disk[f].exists /\ disk[f].readable

\* The value a method reads from storage.
OnStorageNow(method, f) == IF method = "Size" THEN disk[f].size ELSE disk[f].sum

\* C31: a call of Size or CheckSum that returns an error changes no memoized
\* field and leaves the field of its file unset; and a call made when no
\* earlier call of the method on the file succeeded (all of them failed, or
\* there was none) and storage now has the file goes to storage and returns
\* the value of the file.
C31_FailureIsNotMemoized ==
    [][ (last'.op \in {"Size", "CheckSum"} /\ last' # last) =>
          /\ ~last'.ok =>
                /\ size' = size /\ checkSum' = checkSum
                /\ IF last'.op = "Size" THEN size'[last'.file] = 0
                                        ELSE checkSum'[last'.file] = ""
          /\ (<<last'.op, last'.file>> \notin DOMAIN known
                 /\ StorageServes(last'.op, last'.file)) =>
                /\ last'.ok /\ last'.touched
                /\ last'.val = OnStorageNow(last'.op, last'.file) ]_vars

\* A call failed, the file was put in place, and the next call of the same
\* method on it read the value from storage.
C31_Witness ==
    /\ last.op \in {"Size", "CheckSum"}
    /\ last.ok /\ last.touched
    /\ <<last.op, last.file>> \in last.failed
    /\ last.val = OnDisk(last.file)[IF last.op = "Size" THEN "size" ELSE "sum"]

-----------------------------------------------------------------------------
(* C32 *)

\* C32: a goroutine that is in none of ServeImage, RemoveImage and
\* imageFileByName does not hold the mutex, whichever way it returned, an
\* error return after f.mu.Lock() included; and under fair scheduling every
\* call that was entered returns.
C32_MutexReleasedAndCallsReturn ==
    /\ [](\A p \in Procs : pc[p] = Idle => mu # p)
    /\ \A p \in Procs : (pc[p] # Idle) ~> (pc[p] = Idle)

\* A ServeImage returned an error it met after f.mu.Lock(), the mutex is held
\* by the other goroutine, and nobody is left holding it from the failed call.
C32_Witness ==
    /\ last.err \in {"uuid", "url"}
    /\ \E p \in Procs : pc[p] = Idle /\ mu \notin {p, NoProc}

-----------------------------------------------------------------------------
(* C33 *)

\* The error BuildImage meets before it calls ServeImage, "" when there is
\* none: that of getIgnitionOverride, or else that of buildIgnitionConfig.
ErrBeforeServe(data, networkData, fetched) ==
    LET mergeWith == getIgnitionOverride(data, fetched) IN
    IF mergeWith.err # "" THEN mergeWith.err
    ELSE buildIgnitionConfig(networkData, data.Name, mergeWith.val).err

\* C33: a BuildImage of which the override lookup or the ignition config
\* build fails (ImageNotReady for a host of an InfraEnv without override
\* included) returns no URL and that error, has not called ServeImage and
\* leaves the image handler as it was; a BuildImage calls ServeImage, with
\* the key of its image, only when both succeeded.
C33_ServeOnlyAfterIgnition ==
    [][ built'.op = "build" =>
          LET data == built'.data
              failed == ErrBeforeServe(data, built'.networkData, built'.fetched)
          IN
          /\ (data.infraEnv /\ ~data.override) => built'.err = "ImageNotReady"
          /\ IF failed # ""
             THEN /\ ~built'.served
                  /\ built'.url = ""
                  /\ built'.err = failed
                  /\ UNCHANGED <<keys, images, size, checkSum, last>>
             ELSE /\ built'.served
                  /\ last'.op = "serve" /\ last'.key = imageKey(data) ]_vars

\* With an image registered in the content-addressed handler, a BuildImage for
\* a host of an InfraEnv without override has returned ImageNotReady.
C33_Witness ==
    /\ handler = "content" /\ images # <<>>
    /\ built.op = "build" /\ ~built.served
    /\ built.err = "ImageNotReady" /\ built.url = ""

-----------------------------------------------------------------------------
(* C34 *)

\* C34: with the ignition-override annotation, getIgnitionOverride returns
\* the downloaded override, or the error of the download, whether or not the
\* InfraEnv label is there too; without the annotation and with the label it
\* returns ImageNotReady; with neither it returns no override and no error.
\* BuildImage returns the error, or serves the payload built with what
\* getIgnitionOverride returned.
C34_OverrideBeforeInfraEnv ==
    built.op = "build" =>
        LET data == built.data
            mergeWith == getIgnitionOverride(data, built.fetched)
        IN
        /\ IF data.override
           THEN IF built.fetched
                THEN mergeWith = [val |-> <<1, 2>>, err |-> ""]
                ELSE /\ mergeWith.err = "could not download Ignition override"
                     /\ mergeWith.val = <<>>
           ELSE IF data.infraEnv
                THEN mergeWith = [val |-> <<>>, err |-> "ImageNotReady"]
                ELSE mergeWith = [val |-> <<>>, err |-> ""]
        /\ mergeWith.err # "" => built.err = mergeWith.err /\ ~built.served
        /\ built.served =>
              last.payload = buildIgnitionConfig(built.networkData, data.Name,
                                                 mergeWith.val).val

\* A host with both the annotation and the InfraEnv label was served the
\* payload merged with the downloaded override.
C34_Witness ==
    /\ built.op = "build" /\ built.served
    /\ built.data.override /\ built.data.infraEnv
    /\ last.op = "serve" /\ last.payload = <<1, 2>>

-----------------------------------------------------------------------------
(* C35 *)

\* What Reconcile does in a pass, by the image it reads: nothing for a failed
\* read or a missing image, otherwise ensureIgnitionSecret or the upstream
\* reconciler, never both.
Dispatch(unannotated) ==
    last' # last =>
        IF last'.calls[1][2] = "error"
        THEN ~last'.ensured /\ ~last'.upstream /\ last'.err # ""
        ELSE IF cluster.img = "missing"
        THEN /\ ~last'.ensured /\ ~last'.upstream
             /\ last'.err = "" /\ ~last'.requeue
        ELSE /\ last'.ensured = (~cluster.deleting /\ unannotated)
             /\ last'.upstream = ~last'.ensured

\* C35 as stated: Reconcile calls ensureIgnitionSecret, and not the upstream
\* reconciler, exactly when the image exists, is not being deleted and has no
\* agent-config annotation; otherwise an image that exists goes to the
\* upstream reconciler; a missing image returns no error and no requeue.
C35_EnsureExactlyWhenNotAnnotated ==
    [][Dispatch(ignitionSecretAnnotationName \notin DOMAIN cluster.annotations)]_vars

\* C35, amended: the same with "has no agent-config annotation or an empty
\* one": the value of the annotation is compared with "".
C35_EnsureExactlyWhenAnnotationEmpty ==
    [][Dispatch(Lookup(cluster.annotations, ignitionSecretAnnotationName) = "")]_vars

\* A pass has called ensureIgnitionSecret for an image that had the
\* annotation with an empty value, and has written the name of the secret.
C35_Witness ==
    /\ last.op = "reconcile" /\ last.ensured /\ ~last.upstream
    /\ last.read.annotations = (ignitionSecretAnnotationName :> "")
    /\ Lookup(cluster.annotations, ignitionSecretAnnotationName) = ignitionSecretName

-----------------------------------------------------------------------------
(* C36 *)

\* Whether a pass made an API call, with an outcome.
Called(verb, outcome) ==
    \E i \in DOMAIN last.calls : last.calls[i] = <<verb, outcome>>

\* Whether a pass patched, or tried to patch, the annotation onto the image.
Patched == Called("Patch", "ok") \/ Called("Patch", "error")

\* C36: ensureIgnitionSecret calls Create only right after the lookup of the
\* secret reported not-found; when the lookup fails for another reason, or
\* Generate or Create fails, it returns the error and has not patched the
\* image, whose annotations are as they were; when the secret was found or
\* has just been created it patches the annotation and asks for a requeue.
C36_SecretBeforeAnnotation ==
    (last.op = "reconcile" /\ last.ensured) =>
        /\ \A i \in DOMAIN last.calls :
              last.calls[i][1] = "Create" =>
                  i > 1 /\ last.calls[i - 1] = <<"Get secret", "not found">>
        /\ (Called("Get secret", "error") \/ Called("Create", "error")
               \/ (Called("Get secret", "not found")
                     /\ cluster.builder = "generate fails")) =>
              /\ last.err \in {"get secret", "create", "generate"}
              /\ ~Patched
              /\ cluster.annotations = last.read.annotations
        /\ (Called("Get secret", "found") \/ Called("Create", "ok")) =>
              /\ Patched /\ last.requeue
              /\ Called("Patch", "ok") =>
                    /\ last.err = ""
                    /\ Lookup(cluster.annotations, ignitionSecretAnnotationName)
                          = ignitionSecretName

\* A pass found no secret, created it and patched the annotation.
C36_Witness ==
    /\ last.op = "reconcile" /\ last.ensured
    /\ ~last.read.secret /\ cluster.secret
    /\ Called("Create", "ok") /\ Called("Patch", "ok")

-----------------------------------------------------------------------------
(* C37 *)

\* The image is there and is not being deleted.
Live == cluster.img = "present" /\ ~cluster.deleting

-----------------------------------------------------------------------------
(* C38 *)

\* C38: the goroutine of the HTTP listener and the controller manager are
\* started only once the image handler is built, every request served and
\* every BuildImage finds it built, and a process that a failure of the
\* listener or of the controller has ended has exit status 1.
C38_HandlerBeforeServing ==
    /\ [](handler = "unbuilt" =>
            proc.http = "unstarted" /\ proc.main \in {"setup", "handler"})
    /\ [][(last' # last \/ built' # built) => handler = "content"]_vars
    /\ [](proc.cause \in {"listener", "controller"} => proc.exit = 1)
    /\ [][proc.exit # -1 => UNCHANGED vars]_vars

\* The listener has served an image that a BuildImage of the running manager
\* registered, and then it failed.
C38_Witness ==
    /\ handler = "content" /\ built.op = "build" /\ built.url # ""
    /\ last.op = "get" /\ last.status = 200
    /\ proc.cause = "listener" /\ proc.exit = 1

-----------------------------------------------------------------------------
(* C39 *)

\* strings.Contains(s, sub).
Contains(s, sub) ==
    \E i \in 1..(Len(s) - Len(sub) + 1) : SubSeq(s, i, i + Len(sub) - 1) = sub

\* The line of the unit that pulls the image, with the flags given.
PullLine(image, flags) ==
    "\nExecStartPre=/bin/podman pull " \o image \o " " \o flags \o "\n"

\* C39: the unit ironicAgentService returns is named ironic-agent.service
\* and is enabled, whatever the image and the pull secret; its podman pull
\* command ends in --authfile=/etc/authfile.json when the pull secret is not
\* empty, and the unit contains no --authfile when it is empty.
C39_AuthfileIffPullSecret ==
    last.op = "unit" =>
        /\ last.unit.Name = "ironic-agent.service"
        /\ last.unit.Enabled = TRUE
        /\ Contains(last.unit.Contents, "--authfile=/etc/authfile.json")
             <=> last.b.ironicAgentPullSecret # ""
        /\ Contains(last.unit.Contents,
                    PullLine(last.b.ironicAgentImage,
                             IF last.b.ironicAgentPullSecret # ""
                             THEN "--tls-verify=false --authfile=/etc/authfile.json"
                             ELSE "--tls-verify=false"))

\* The unit was generated with an empty pull secret for the image of the
\* test, and has no --authfile.
C39_Witness ==
    /\ last.op = "unit"
    /\ last.b.ironicAgentPullSecret = ""
    /\ last.b.ironicAgentImage = "http://example.com/foo:latest"
    /\ ~Contains(last.unit.Contents, "--authfile")

=============================================================================
